---- MODULE Spec2Model ----
(***************************************************************************)
(* A model of the discharge boot adapter (image.c, main.c, microlib.c):    *)
(* the cache-coherence gate, the FIT subimage locator, the extent          *)
(* resolver, the component loader and the target-FDT patcher.              *)
(*                                                                         *)
(* Multi-byte values are sequences of bytes, most significant byte first:  *)
(* a uint32_t is a 4-byte sequence, a pointer or uint64_t an 8-byte one.   *)
(* Memory bytes are kept in address order.                                 *)
(***************************************************************************)
EXTENDS Integers, Sequences, FiniteSets, TLC

VARIABLES
    mem,      \* loader: physical memory, address -> byte
    mem0,     \* loader: memory as it was handed over by the previous stage
    pre,      \* loader: memory as it was before the last call
    fit,      \* loader: the FIT container (a tree whose properties live in mem)
    hist,     \* loader: the load calls made so far, in order
    blobs,    \* locator: what lies at each address the locator may look at
    boot,     \* locator: the boot FDT handed to find_fit_subimage
    tgt,      \* patcher: the target tree
    tgt0,     \* patcher: the target tree as it was before the last call
    srcfdt,   \* patcher: the source (bootloader) tree
    call      \* the last call: function, arguments, result, operations performed

loaderVars  == <<mem, mem0, pre, fit, hist>>
locatorVars == <<blobs, boot>>
patcherVars == <<tgt, tgt0, srcfdt>>
vars        == <<mem, mem0, pre, fit, hist, blobs, boot, tgt, tgt0, srcfdt, call>>

-----------------------------------------------------------------------------
(* Bounds of the model. *)

\* Largest `data` property of a FIT component, in bytes.
MaxSize == 2
\* Bytes of memory past the end of the FIT container.
Spare == 4
\* Largest totalsize of a device tree the gate is run on, in bytes.
MaxTotalSize == 41
\* Patcher calls made on one target tree.
MaxCalls == 2
\* Largest `reg` of the source tree's /memory node, in cells.
MaxRegCells == 4
\* Largest headroom of the target tree, in steps of two cells.
MaxFreeSteps == 32

-----------------------------------------------------------------------------
(* Return codes. *)

SUCCESS == 0
FDT_ERR_NOTFOUND == 1
FDT_ERR_EXISTS == 2
FDT_ERR_NOSPACE == 3
FDT_ERR_BADMAGIC == 9
FDT_ERR_BADVERSION == 10
FDT_ERR_BADVALUE == 15

-----------------------------------------------------------------------------
(* Bytes and words. *)

Reverse(s) == [i \in 1..Len(s) |-> s[Len(s) + 1 - i]]
Zeros(n)   == [i \in 1..n |-> 0]

\* The unsigned value of a big-endian byte string.
RECURSIVE BEValue(_)
BEValue(bytes) ==
    IF bytes = << >> THEN 0
    ELSE 256 * BEValue(SubSeq(bytes, 1, Len(bytes) - 1)) + bytes[Len(bytes)]

\* sizeof(uint32_t): the width of a device-tree cell.
CellBytes == 4

\* The null pointer.
NULL == Zeros(8)

\* A small address as a pointer, and back.
PtrOf(a)     == Zeros(6) \o <<a \div 256, a % 256>>
PtrIsSmall(p) == \A i \in 1..6 : p[i] = 0
AddrOf(p)    == p[7] * 256 + p[8]

\* A uint32_t read by the (little-endian) CPU from four bytes of memory:
\* the byte at the lowest address is the least significant.
Deref32(bytes) == Reverse(SubSeq(bytes, 1, CellBytes))

\* fdt32_to_cpu on a little-endian CPU: a byte swap.
fdt32_to_cpu(x) == Reverse(x)

\* (void *)(uintptr_t)fdt32_to_cpu(metalocation): zero-extended to 64 bits.
location_from_devicetree(metalocation) == Zeros(4) \o fdt32_to_cpu(metalocation)

-----------------------------------------------------------------------------
(* The tree accessor (libfdt).  A tree is a record with a sequence `nodes`; *)
(* a node is [path, props] where path is the sequence of node names from    *)
(* the root; a node's offset is its index in `nodes`, the root's is 0.      *)
(* A property is [name, val] (its bytes) or, when its bytes lie in the      *)
(* modelled memory, [name, at, len].                                        *)

\* The components of the path strings the program uses.
PathSplit(path) ==
    CASE path = "/"                       -> <<>>
      [] path = "/chosen"                 -> <<"chosen">>
      [] path = "/memory"                 -> <<"memory">>
      [] path = "/module@0"               -> <<"module@0">>
      [] path = "/module@1"               -> <<"module@1">>
      [] path = "/images/xen_kernel@1"    -> <<"images", "xen_kernel@1">>
      [] path = "/images/fdt@1"           -> <<"images", "fdt@1">>
      [] path = "/images/linux_kernel@1"  -> <<"images", "linux_kernel@1">>
      [] OTHER                            -> <<path>>

\* &module_node_name[1]: the string without its first character.
SkipFirstChar(path) ==
    CASE path = "/module@0" -> "module@0"
      [] path = "/module@1" -> "module@1"
      [] path = "/memory"   -> "memory"
      [] OTHER              -> path

NodeIndexes(t, comps) == {i \in 1..Len(t.nodes) : t.nodes[i].path = comps}
Min(S) == CHOOSE x \in S : \A y \in S : x <= y

\* fdt_path_offset: the offset of the node at `path`, or -FDT_ERR_NOTFOUND.
fdt_path_offset(t, path) ==
    LET comps == PathSplit(path) IN
    IF comps = <<>> THEN 0
    ELSE IF NodeIndexes(t, comps) = {} THEN -FDT_ERR_NOTFOUND
    ELSE Min(NodeIndexes(t, comps))

PropIndexes(t, node, name) ==
    IF node < 1 \/ node > Len(t.nodes) THEN {}
    ELSE {i \in 1..Len(t.nodes[node].props) : t.nodes[node].props[i].name = name}

PropLen(p) == IF "val" \in DOMAIN p THEN Len(p.val) ELSE p.len
PropBytes(m, p) ==
    IF "val" \in DOMAIN p THEN p.val ELSE [i \in 1..p.len |-> m[p.at + i - 1]]
PropAt(p) == IF "val" \in DOMAIN p THEN -1 ELSE p.at

\* fdt_getprop: the property's length, the address of its data (-1 when it
\* is not in the modelled memory) and the bytes there; a negative length
\* and no data when the node has no such property.
fdt_getprop(m, t, node, name) ==
    LET idx == PropIndexes(t, node, name) IN
    IF idx = {} THEN [len |-> -FDT_ERR_NOTFOUND, at |-> -1, bytes |-> <<>>]
    ELSE LET p == t.nodes[node].props[Min(idx)] IN
         [len |-> PropLen(p), at |-> PropAt(p), bytes |-> PropBytes(m, p)]

\* find_node: fdt_path_offset, with a progress message.
find_node(image, path) == fdt_path_offset(image, path)

-----------------------------------------------------------------------------
(* Cache maintenance (cache.h) and the C library.                          *)

invalidate_cache_line(addr)         == [op |-> "invalidate_line", addr |-> addr]
invalidate_cache_region(addr, size) == [op |-> "invalidate_region", addr |-> addr, size |-> size]

\* memcpy of microlib.c: a forward byte-by-byte loop, each byte read when
\* it is copied.
RECURSIVE memcpy_from(_, _, _, _, _)
memcpy_from(m, dest, src, n, i) ==
    IF i >= n THEN m
    ELSE memcpy_from([m EXCEPT ![dest + i] = m[src + i]], dest, src, n, i + 1)
memcpy(m, dest, src, n) == memcpy_from(m, dest, src, n, 0)

\* memmove: as if the source bytes were first copied to a temporary.
memmove(m, dst0, src0, length) ==
    [a \in DOMAIN m |->
        IF a >= dst0 /\ a < dst0 + length THEN m[src0 + (a - dst0)] ELSE m[a]]

-----------------------------------------------------------------------------
(* The loader's memory and FIT container.                                  *)

\* The components main loads with load_image_component, in main's order.
Paths == <<"/images/xen_kernel@1", "/images/linux_kernel@1">>
PathSet == {Paths[k] : k \in 1..Len(Paths)}
IndexOfPath(path) == CHOOSE k \in 1..Len(Paths) : Paths[k] = path

\* The container lies at the bottom of memory: per component a `load`
\* cell followed by room for its `data`.
SlotBytes == CellBytes + MaxSize
CellAt(k) == (k - 1) * SlotBytes
DataAt(k) == CellAt(k) + CellBytes
MemSize   == Len(Paths) * SlotBytes + Spare
Addrs     == 0..(MemSize - 1)

\* A cell holding a small address, as it lies in memory (big-endian).
CellOf(a) == <<0, 0, a \div 256, a % 256>>

\* What a load call finds in its uninitialised locals.
Garbage ==
    [load_location : {NULL, PtrOf(MemSize - 1)}, data_location : {0}, size : {-1, 1}]

-----------------------------------------------------------------------------
(* image.c: the extent resolver and the component loader.                  *)

\* A resolver that takes the placement from `reg` when there is no `load`.
LoadInformation_or_reg(m, image, node) ==
    IF fdt_getprop(m, image, node, "load").len >= 0
    THEN fdt_getprop(m, image, node, "load")
    ELSE fdt_getprop(m, image, node, "reg")

\* load_information_location = fdt_getprop(image, node, "load", ...).
LoadInformation(m, image, node) == fdt_getprop(m, image, node, "load")

\* get_subcomponent_information.  `outs` are the caller's variables the out
\* arguments point to (`valid`: none of the three pointers is NULL); the
\* result is the return code and those variables after the call.
get_subcomponent_information(m, image, path, outs) ==
    LET node == find_node(image, path)
        data == fdt_getprop(m, image, node, "data")
        load == LoadInformation(m, image, node)
        unchanged(rc) == [rc |-> rc, node |-> node, assigned |-> FALSE,
                          load_location |-> outs.load_location,
                          data_location |-> outs.data_location,
                          size |-> outs.size]
    IN  IF ~outs.valid THEN unchanged(-FDT_ERR_BADVALUE)
        ELSE IF node < 0 THEN unchanged(node)
        ELSE IF data.len <= 0 THEN unchanged(data.len)
        ELSE IF load.len <= 0 THEN unchanged(load.len)
        ELSE [rc |-> SUCCESS, node |-> node, assigned |-> TRUE,
              load_location |-> location_from_devicetree(Deref32(load.bytes)),
              data_location |-> data.at,
              size |-> data.len]

\* Whether memmove(load_location, data_location, size) stays inside the
\* modelled memory.
InMemory(load_location, data_location, size) ==
    /\ size >= 0
    /\ PtrIsSmall(load_location)
    /\ AddrOf(load_location) + size <= MemSize
    /\ data_location >= 0
    /\ data_location + size <= MemSize

\* A loader that copies with the forward loop of memcpy instead.
CopyToLoadLocation_memcpy(m, load_location, data_location, size) ==
    memcpy(m, load_location, data_location, size)

\* The memmove of load_image_component.
CopyToLoadLocation(m, load_location, data_location, size) ==
    memmove(m, load_location, data_location, size)

\* A loader that passes memmove its source and destination swapped.
RelocateComponent_swapped(m, info) ==
    LET ok == InMemory(info.load_location, info.data_location, info.size) IN
    [ops   |-> << invalidate_cache_region(info.load_location, info.size),
                  [op |-> "memmove", dst |-> info.data_location,
                   src |-> info.load_location, n |-> info.size] >>,
     fault |-> ~ok,
     mem   |-> IF ok THEN CopyToLoadLocation(m, info.data_location,
                                             AddrOf(info.load_location), info.size)
               ELSE m]

\* What load_image_component does once the extents are resolved: the cache
\* invalidation, then the copy.
RelocateComponent(m, info) ==
    LET ok == InMemory(info.load_location, info.data_location, info.size) IN
    [ops   |-> << invalidate_cache_region(info.load_location, info.size),
                  [op |-> "memmove", dst |-> info.load_location,
                   src |-> info.data_location, n |-> info.size] >>,
     fault |-> ~ok,
     mem   |-> IF ok THEN CopyToLoadLocation(m, AddrOf(info.load_location),
                                             info.data_location, info.size)
               ELSE m]

\* load_image_component.  `locals` are its uninitialised locals; `want_size`
\* says whether out_size is non-NULL.
load_image_component(m, image, path, locals, want_size) ==
    LET info == get_subcomponent_information(m, image, path,
                    [valid |-> TRUE, load_location |-> locals.load_location,
                     data_location |-> locals.data_location, size |-> locals.size])
        done == RelocateComponent(m, info)
    IN  IF info.rc # SUCCESS
        THEN [ret |-> NULL, rc |-> info.rc, info |-> info, ops |-> <<>>,
              fault |-> FALSE, mem |-> m, out_size_set |-> FALSE, out_size |-> 0]
        ELSE [ret |-> info.load_location, rc |-> info.rc, info |-> info,
              ops |-> done.ops, fault |-> done.fault, mem |-> done.mem,
              out_size_set |-> want_size, out_size |-> IF want_size THEN info.size ELSE 0]

-----------------------------------------------------------------------------
(* The loader's specification: any FIT container, its components loaded    *)
(* one after another in an order the caller chooses.                       *)

\* A component node as the image's producer may have written it: absent,
\* or with a `data` property of data_len bytes (-1: no such property) and a
\* `load` property of load_len bytes holding the address load_addr.
NodeOptions ==
    { [present |-> FALSE, data_len |-> -1, load_len |-> -1, load_addr |-> 0] }
    \cup
    { [present |-> TRUE, data_len |-> d, load_len |-> CellBytes, load_addr |-> 0] :
        d \in {-1, 0} }
    \cup
    { [present |-> TRUE, data_len |-> 1, load_len |-> l, load_addr |-> 0] :
        l \in {-1, 0} }
    \cup
    { [present |-> TRUE, data_len |-> d, load_len |-> CellBytes, load_addr |-> a] :
        d \in 1..MaxSize, a \in Addrs }

ComponentNode(opts, k) ==
    [path  |-> PathSplit(Paths[k]),
     props |-> (IF opts[k].data_len >= 0
                THEN << [name |-> "data", at |-> DataAt(k), len |-> opts[k].data_len] >>
                ELSE << >>)
               \o
               (IF opts[k].load_len >= 0
                THEN << [name |-> "load", at |-> CellAt(k), len |-> opts[k].load_len] >>
                ELSE << >>)]

RECURSIVE ComponentNodes(_, _)
ComponentNodes(opts, k) ==
    IF k > Len(Paths) THEN << >>
    ELSE (IF opts[k].present THEN << ComponentNode(opts, k) >> ELSE << >>)
         \o ComponentNodes(opts, k + 1)

\* Memory as handed over: the `load` cells where the container has them,
\* and everywhere else a byte that tells the address it started at.
HandedOver(opts) ==
    [a \in Addrs |->
        IF \E k \in 1..Len(Paths) :
              /\ opts[k].present /\ opts[k].load_len = CellBytes
              /\ a >= CellAt(k) /\ a < CellAt(k) + CellBytes
        THEN LET k == CHOOSE k \in 1..Len(Paths) :
                          a >= CellAt(k) /\ a < CellAt(k) + CellBytes
             IN  CellOf(opts[k].load_addr)[a - CellAt(k) + 1]
        ELSE 16 + a]

IdleLoader  == mem = << >> /\ mem0 = << >> /\ pre = << >> /\ fit = << >> /\ hist = << >>
IdleLocator == blobs = << >> /\ boot = << >>
IdlePatcher == tgt = << >> /\ tgt0 = << >> /\ srcfdt = << >>

InitLoad ==
    /\ \E opts \in [1..Len(Paths) -> NodeOptions] :
          /\ fit  = [nodes |-> ComponentNodes(opts, 1)]
          /\ mem0 = HandedOver(opts)
          /\ mem  = HandedOver(opts)
          /\ pre  = HandedOver(opts)
    /\ hist = << >>
    /\ call = [fn |-> "none"]
    /\ IdleLocator
    /\ IdlePatcher

Loaded == {hist[i].path : i \in 1..Len(hist)}

\* One call of load_image_component(fit, path, out_size).
LoadComponent(path, locals, want_size) ==
    /\ path \notin Loaded
    /\ LET r == load_image_component(mem, fit, path, locals, want_size) IN
        /\ mem'  = r.mem
        /\ pre'  = mem
        /\ hist' = Append(hist, [path |-> path, ret |-> r.ret, rc |-> r.rc,
                                 assigned |-> r.info.assigned, fault |-> r.fault])
        /\ call' = [fn |-> "load_image_component", path |-> path, ret |-> r.ret,
                    rc |-> r.rc, assigned |-> r.info.assigned, fault |-> r.fault,
                    ops |-> r.ops, want_size |-> want_size,
                    out_size_set |-> r.out_size_set, out_size |-> r.out_size]
    /\ UNCHANGED <<mem0, fit>>
    /\ UNCHANGED locatorVars
    /\ UNCHANGED patcherVars

NextLoad ==
    \E path \in PathSet, locals \in Garbage, want_size \in BOOLEAN :
        LoadComponent(path, locals, want_size)

SpecLoad == InitLoad /\ [][NextLoad]_vars

-----------------------------------------------------------------------------
(* image.c: the cache-coherence gate and the FIT subimage locator.         *)
(* `b` maps an address to the device-tree header lying there: its magic    *)
(* and totalsize fields as the four bytes in memory, and its versions.     *)

\* 0xd00dfeed.
FDT_MAGIC == <<208, 13, 254, 237>>
FDT_FIRST_SUPPORTED_VERSION == 2
FDT_LAST_SUPPORTED_VERSION == 17

\* What lies at an address nothing is known about: no device tree.
NoTree == [magic |-> <<0, 0, 0, 0>>, version |-> 0, last_comp_version |-> 0,
           totalsize |-> <<0, 0, 0, 0>>]
BlobAt(b, image) == IF image \in DOMAIN b THEN b[image] ELSE NoTree

\* fdt_magic and fdt_totalsize: a header field, converted to CPU order.
fdt_magic(b, image)     == fdt32_to_cpu(Deref32(BlobAt(b, image).magic))
fdt_totalsize(b, image) == fdt32_to_cpu(Deref32(BlobAt(b, image).totalsize))

\* fdt_check_header: the magic number, then the versions.
fdt_check_header(b, image) ==
    IF fdt_magic(b, image) # FDT_MAGIC THEN -FDT_ERR_BADMAGIC
    ELSE IF BlobAt(b, image).version < FDT_FIRST_SUPPORTED_VERSION THEN -FDT_ERR_BADVERSION
    ELSE IF BlobAt(b, image).last_comp_version > FDT_LAST_SUPPORTED_VERSION
         THEN -FDT_ERR_BADVERSION
    ELSE SUCCESS

CheckHeaderOp(image) == [op |-> "fdt_check_header", addr |-> image]

\* A gate that goes on when the header check fails.
ensure_image_is_accessible_unchecked(b, image) ==
    [rc  |-> SUCCESS,
     ops |-> << invalidate_cache_line(image), CheckHeaderOp(image),
                invalidate_cache_region(image, fdt_totalsize(b, image)) >>]

\* A gate without the first phase.
ensure_image_is_accessible_one_phase(b, image) ==
    LET rc == fdt_check_header(b, image) IN
    IF rc # SUCCESS
    THEN [rc |-> rc, ops |-> << CheckHeaderOp(image) >>]
    ELSE [rc |-> SUCCESS,
          ops |-> << CheckHeaderOp(image),
                     invalidate_cache_region(image, fdt_totalsize(b, image)) >>]

\* ensure_image_is_accessible: the return code and the operations performed
\* on the image, in order.
ensure_image_is_accessible(b, image) ==
    LET rc == fdt_check_header(b, image) IN
    IF rc # SUCCESS
    THEN [rc |-> rc, ops |-> << invalidate_cache_line(image), CheckHeaderOp(image) >>]
    ELSE [rc |-> SUCCESS,
          ops |-> << invalidate_cache_line(image), CheckHeaderOp(image),
                     invalidate_cache_region(image, fdt_totalsize(b, image)) >>]

\* The image find_fit_subimage passes on when the tree names no subimage.
FallbackImage_null(fdt) == NULL
FallbackImage(fdt) == fdt

\* A locator that takes the cell as it lies in memory, without fdt32_to_cpu.
SubimageFromCell_raw(cell) == Zeros(4) \o cell

\* subimage = location_from_devicetree(*subimage_location).
SubimageFromCell(cell) == location_from_devicetree(cell)

\* find_fit_subimage.  `fdt` is [at, tree]: the boot FDT's address and its
\* contents.  The result is the pointer returned and the operations
\* performed, in order.
find_fit_subimage(b, fdt) ==
    LET chosen_node == find_node(fdt.tree, "/chosen")
        prop        == fdt_getprop(<< >>, fdt.tree, chosen_node, "linux,initrd-start")
        subimage    == SubimageFromCell(Deref32(prop.bytes))
        gate        == ensure_image_is_accessible(b, subimage)
        lookup      == << [op |-> "fdt_path_offset", addr |-> fdt.at] >>
        getprop     == << [op |-> "fdt_getprop", addr |-> fdt.at] >>
        magic       == << [op |-> "read", addr |-> subimage] >>
    IN  IF chosen_node < 0
        THEN [ret |-> NULL, ops |-> lookup]
        ELSE IF prop.len <= 0
        THEN [ret |-> FallbackImage(fdt.at), ops |-> lookup \o getprop]
        ELSE IF gate.rc # SUCCESS
        THEN [ret |-> NULL, ops |-> lookup \o getprop \o magic \o gate.ops]
        ELSE [ret |-> subimage,
              ops |-> lookup \o getprop \o magic \o gate.ops
                      \o << [op |-> "fdt_totalsize", addr |-> subimage] >>]

-----------------------------------------------------------------------------
(* The locator's specification: any boot FDT, any contents at the address  *)
(* its /chosen node names; the gate and the locator called on them.        *)

\* sizeof(struct fdt_header).
HeaderBytes == 40

\* The bytes a cell is made of in this model.
ByteChoices == {0, 1, 255}
Cells == [1..CellBytes -> ByteChoices]

\* Where the boot FDT lies (0x01000000), and an address nothing lies at.
BootAt  == <<0, 0, 0, 0, 1, 0, 0, 0>>
StrayAt == <<0, 0, 0, 0, 0, 16, 0, 0>>

\* 0xdeadbeef written by a little-endian CPU, as in the test.
DeadBeef == <<239, 190, 173, 222>>

Headers ==
    [magic : {FDT_MAGIC, Reverse(FDT_MAGIC), DeadBeef},
     version : {1, 17}, last_comp_version : {16, 18},
     totalsize : {CellOf(n) : n \in HeaderBytes..MaxTotalSize}]
BootHeader ==
    [magic |-> FDT_MAGIC, version |-> 17, last_comp_version |-> 16,
     totalsize |-> CellOf(MaxTotalSize)]

\* The values of /chosen/linux,initrd-start: empty, one cell, or two cells.
InitrdValues ==
    {<< >>} \cup Cells \cup {c \o <<0, 0, 16, 0>> : c \in {<<0, 0, 0, 1>>, <<255, 1, 0, 0>>}}

ChosenNodes ==
    {[path |-> <<"chosen">>, props |-> << >>]}
    \cup
    {[path |-> <<"chosen">>, props |-> << [name |-> "bootargs", val |-> <<0>>],
                                         [name |-> "linux,initrd-start", val |-> v] >>] :
        v \in InitrdValues}

BootTrees ==
    {[nodes |-> << [path |-> <<"memory">>, props |-> << >>] >>]}
    \cup
    {[nodes |-> << [path |-> <<"memory">>, props |-> << >>], c >>] : c \in ChosenNodes}

\* The address the boot tree names, when it names one.
NamedAt(tree) ==
    LET node == fdt_path_offset(tree, "/chosen")
        prop == fdt_getprop(<< >>, tree, node, "linux,initrd-start")
    IN  IF node >= 0 /\ prop.len >= CellBytes
        THEN Zeros(4) \o SubSeq(prop.bytes, 1, CellBytes)
        ELSE StrayAt

InitLocate ==
    /\ \E tree \in BootTrees, hdr \in Headers :
          /\ boot  = [at |-> BootAt, tree |-> tree]
          /\ blobs = (BootAt :> BootHeader) @@ (NamedAt(tree) :> hdr)
    /\ call = [fn |-> "none"]
    /\ IdleLoader
    /\ IdlePatcher

\* One call of ensure_image_is_accessible(image).
EnsureAccessible(image) ==
    /\ LET r == ensure_image_is_accessible(blobs, image) IN
          call' = [fn |-> "ensure_image_is_accessible", image |-> image,
                   rc |-> r.rc, ops |-> r.ops]
    /\ UNCHANGED locatorVars
    /\ UNCHANGED loaderVars
    /\ UNCHANGED patcherVars

\* One call of find_fit_subimage(fdt).
FindFitSubimage ==
    /\ LET r == find_fit_subimage(blobs, boot) IN
          call' = [fn |-> "find_fit_subimage", ret |-> r.ret, ops |-> r.ops]
    /\ UNCHANGED locatorVars
    /\ UNCHANGED loaderVars
    /\ UNCHANGED patcherVars

NextLocate ==
    \/ \E image \in DOMAIN blobs \cup {StrayAt} : EnsureAccessible(image)
    \/ FindFitSubimage

SpecLocate == InitLocate /\ [][NextLocate]_vars

-----------------------------------------------------------------------------
(* The tree accessor's write operations (libfdt), on trees that carry      *)
(* their properties' bytes: a tree is [nodes, strings, free], `strings`    *)
(* the property names in its strings block and `free` the bytes left       *)
(* between its blocks and its total size.  A property is [name, kind, val]:*)
(* a list of NUL-terminated strings or a sequence of bytes.                *)

\* FDT_TAGALIGN: a length rounded up to whole cells.
FDT_TAGALIGN(n) == ((n + CellBytes - 1) \div CellBytes) * CellBytes

RECURSIVE StringsLen(_)
StringsLen(strs) ==
    IF strs = << >> THEN 0 ELSE Len(Head(strs)) + 1 + StringsLen(Tail(strs))

\* A property value's length in bytes.
ValLen(kind, val) == IF kind = "strings" THEN StringsLen(val) ELSE Len(val)
PropBytesLen(p)   == ValLen(p.kind, p.val)

\* The structure-block bytes of an empty node and of a property of len bytes.
NodeCost(name) == CellBytes + FDT_TAGALIGN(Len(name) + 1) + CellBytes
PropCost(len)  == 3 * CellBytes + FDT_TAGALIGN(len)
\* The strings-block bytes a property name takes, when it is not there yet.
StringCost(t, name) == IF name \in t.strings THEN 0 ELSE Len(name) + 1

\* fdt_add_subnode under the root: the new node becomes the first child.
fdt_add_subnode(t, parentoffset, name) ==
    IF NodeIndexes(t, <<name>>) # {} THEN [off |-> -FDT_ERR_EXISTS, t |-> t]
    ELSE IF NodeCost(name) > t.free THEN [off |-> -FDT_ERR_NOSPACE, t |-> t]
    ELSE [off |-> 1,
          t   |-> [t EXCEPT !.nodes = << [path |-> <<name>>, props |-> << >>] >> \o @,
                            !.free  = @ - NodeCost(name)]]

\* The first `len` bytes at a value (bytes past its end read as zero).
TakeBytes(kind, val, len) ==
    IF kind = "strings" \/ len = Len(val) THEN val
    ELSE IF len < Len(val) THEN SubSeq(val, 1, len)
    ELSE val \o Zeros(len - Len(val))

\* fdt_setprop: replace the property's value, or add the property as the
\* node's first.
fdt_setprop(t, node, name, kind, val, len) ==
    LET idx == PropIndexes(t, node, name) IN
    IF node < 1 \/ node > Len(t.nodes) THEN [rc |-> -FDT_ERR_NOTFOUND, t |-> t]
    ELSE IF idx # {}
    THEN LET i    == Min(idx)
             old  == PropBytesLen(t.nodes[node].props[i])
             grow == FDT_TAGALIGN(len) - FDT_TAGALIGN(old)
         IN  IF grow > t.free THEN [rc |-> -FDT_ERR_NOSPACE, t |-> t]
             ELSE [rc |-> SUCCESS,
                   t  |-> [t EXCEPT !.nodes[node].props[i] =
                                        [name |-> name, kind |-> kind,
                                         val |-> TakeBytes(kind, val, len)],
                                    !.free = @ - grow]]
    ELSE LET cost == PropCost(len) + StringCost(t, name) IN
         IF cost > t.free THEN [rc |-> -FDT_ERR_NOSPACE, t |-> t]
         ELSE [rc |-> SUCCESS,
               t  |-> [t EXCEPT !.nodes[node].props =
                                    << [name |-> name, kind |-> kind,
                                        val |-> TakeBytes(kind, val, len)] >> \o @,
                                !.strings = @ \cup {name},
                                !.free = @ - cost]]

\* fdt_appendprop: extend the property's value, or add the property.
fdt_appendprop(t, node, name, kind, val, len) ==
    LET idx == PropIndexes(t, node, name) IN
    IF node < 1 \/ node > Len(t.nodes) THEN [rc |-> -FDT_ERR_NOTFOUND, t |-> t]
    ELSE IF idx # {}
    THEN LET i    == Min(idx)
             old  == PropBytesLen(t.nodes[node].props[i])
             grow == FDT_TAGALIGN(old + len) - FDT_TAGALIGN(old)
         IN  IF grow > t.free THEN [rc |-> -FDT_ERR_NOSPACE, t |-> t]
             ELSE [rc |-> SUCCESS,
                   t  |-> [t EXCEPT !.nodes[node].props[i].val =
                                        @ \o TakeBytes(kind, val, len),
                                    !.free = @ - grow]]
    ELSE fdt_setprop(t, node, name, kind, val, len)

fdt_setprop_string(t, node, name, str) ==
    fdt_setprop(t, node, name, "strings", <<str>>, Len(str) + 1)
fdt_appendprop_string(t, node, name, str) ==
    fdt_appendprop(t, node, name, "strings", <<str>>, Len(str) + 1)

\* cpu_to_fdt64 on a little-endian CPU, and the bytes a CPU value is stored as.
cpu_to_fdt64(x) == Reverse(x)
StoredBytes(x)  == Reverse(x)

fdt_setprop_u64(t, node, name, val) ==
    fdt_setprop(t, node, name, "bytes", StoredBytes(cpu_to_fdt64(val)), 2 * CellBytes)
fdt_appendprop_u64(t, node, name, val) ==
    fdt_appendprop(t, node, name, "bytes", StoredBytes(cpu_to_fdt64(val)), 2 * CellBytes)

\* fdt_get_property: the property structure (its len field as the four
\* bytes in the tree, and its data), or not found.
fdt_get_property(t, node, name) ==
    LET idx == PropIndexes(t, node, name) IN
    IF idx = {} THEN [found |-> FALSE, len |-> <<0, 0, 0, 0>>, data |-> << >>]
    ELSE LET p == t.nodes[node].props[Min(idx)] IN
         [found |-> TRUE, len |-> CellOf(PropBytesLen(p)), data |-> p.val]

-----------------------------------------------------------------------------
(* image.c: the target-FDT patcher.                                        *)

\* (uint64_t) of an int: sign-extended to 64 bits.
BytesOfNat(n) == <<0, 0, 0, 0, (n \div 16777216) % 256, (n \div 65536) % 256,
                   (n \div 256) % 256, n % 256>>
IntToU64(n) ==
    IF n >= 0 THEN BytesOfNat(n)
    ELSE [i \in 1..8 |-> 255 - BytesOfNat(-(n + 1))[i]]

\* A patcher that appends the role to `compatible` instead of setting it.
SetCompatible_append(t, node, compatible) ==
    fdt_appendprop_string(t, node, "compatible", compatible)

\* fdt_setprop_string(fdt, module_node, "compatible", compatible).
SetCompatible(t, node, compatible) ==
    fdt_setprop_string(t, node, "compatible", compatible)

\* A patcher that sets `reg` to the size instead of appending the size.
AppendModuleSize_set(t, node, size) ==
    fdt_setprop_u64(t, node, "reg", IntToU64(size))

\* fdt_appendprop_u64(fdt, module_node, "reg", (uint64_t)size).
AppendModuleSize(t, node, size) ==
    fdt_appendprop_u64(t, node, "reg", IntToU64(size))

\* A sub-step and its result, added to the sub-steps made so far.
Did(steps, name, r) ==
    [rc |-> r.rc, t |-> r.t, steps |-> Append(steps, [step |-> name, rc |-> r.rc])]

\* A patcher that goes on to the next sub-step when one has failed.
Failed_ignored(r) == FALSE

\* if(rc != SUCCESS) return rc.
Failed(r) == r.rc # SUCCESS

\* update_fdt_for_xen: the return code, the tree as it is left, and the
\* sub-steps made with their results.
update_fdt_for_xen(fdt, module, size, compatible, module_node_name) ==
    LET root_node   == find_node(fdt, "/")
        added       == fdt_add_subnode(fdt, root_node, SkipFirstChar(module_node_name))
        module_node == IF added.off = -FDT_ERR_EXISTS
                       THEN find_node(added.t, module_node_name)
                       ELSE added.off
        s0 == << [step |-> "node", rc |-> IF module_node < 0 THEN module_node ELSE SUCCESS] >>
        s1 == Did(s0, "set compatible", SetCompatible(added.t, module_node, compatible))
        s2 == IF Failed(s1) THEN s1
              ELSE Did(s1.steps, "append compatible",
                       fdt_appendprop_string(s1.t, module_node, "compatible",
                                             "multiboot,module"))
        s3 == IF Failed(s2) THEN s2
              ELSE Did(s2.steps, "set reg",
                       fdt_setprop_u64(s2.t, module_node, "reg", module))
        s4 == IF Failed(s3) THEN s3
              ELSE Did(s3.steps, "append reg", AppendModuleSize(s3.t, module_node, size))
    IN  IF root_node < 0 THEN [rc |-> root_node, t |-> fdt, steps |-> << >>]
        ELSE IF module_node < 0 THEN [rc |-> module_node, t |-> added.t, steps |-> s0]
        ELSE s4

\* A patcher that takes the property's len field as it lies in the tree.
RegLength_raw(source_reg) == BEValue(Deref32(source_reg.len))

\* fdt32_to_cpu(source_reg->len).
RegLength(source_reg) == BEValue(fdt32_to_cpu(Deref32(source_reg.len)))

\* A patcher that looks the source's /memory up before it touches the target.
update_fdt_memory_source_first(target_fdt, source_fdt) ==
    LET added == fdt_add_subnode(target_fdt, 0, "memory")
        target_memory_node == IF added.off = -FDT_ERR_EXISTS
                              THEN find_node(added.t, "/memory") ELSE added.off
        source_memory_node == fdt_path_offset(source_fdt, "/memory")
        source_reg == fdt_get_property(source_fdt, source_memory_node, "reg")
    IN  IF source_memory_node < 0 THEN [rc |-> source_memory_node, t |-> target_fdt]
        ELSE IF target_memory_node < 0 THEN [rc |-> target_memory_node, t |-> added.t]
        ELSE IF ~source_reg.found THEN [rc |-> -FDT_ERR_BADVALUE, t |-> added.t]
        ELSE fdt_setprop(added.t, target_memory_node, "reg", "bytes",
                         source_reg.data, RegLength(source_reg))

\* update_fdt_memory: the return code and the target tree as it is left.
update_fdt_memory(target_fdt, source_fdt) ==
    LET root_node == find_node(target_fdt, "/")
        added     == fdt_add_subnode(target_fdt, root_node, "memory")
        target_memory_node == IF added.off = -FDT_ERR_EXISTS
                              THEN find_node(added.t, "/memory")
                              ELSE added.off
        source_memory_node == fdt_path_offset(source_fdt, "/memory")
        source_reg == fdt_get_property(source_fdt, source_memory_node, "reg")
    IN  IF root_node < 0 THEN [rc |-> root_node, t |-> target_fdt]
        ELSE IF target_memory_node < 0 THEN [rc |-> target_memory_node, t |-> added.t]
        ELSE IF source_memory_node < 0 THEN [rc |-> source_memory_node, t |-> added.t]
        ELSE IF ~source_reg.found THEN [rc |-> -FDT_ERR_BADVALUE, t |-> added.t]
        ELSE fdt_setprop(added.t, target_memory_node, "reg", "bytes",
                         source_reg.data, RegLength(source_reg))

-----------------------------------------------------------------------------
(* The patcher's environment: a target tree unpacked with some headroom,   *)
(* the boot stage's source tree, and the calls main makes on them.         *)

StringsProp(name, strs) == [name |-> name, kind |-> "strings", val |-> strs]
BytesProp(name, bytes)  == [name |-> name, kind |-> "bytes", val |-> bytes]

FreeStep    == 2 * CellBytes
FreeChoices == {k * FreeStep : k \in 0..MaxFreeSteps}

ChosenNode == [path  |-> <<"chosen">>,
               props |-> <<StringsProp("bootargs", <<"console=ttyS0">>)>>]
OldMemory  == [path  |-> <<"memory">>,
               props |-> <<StringsProp("device_type", <<"memory">>),
                           BytesProp("reg", [i \in 1..16 |-> 200 + i])>>]
OldModule  == [path  |-> <<"module@0">>,
               props |-> <<StringsProp("compatible", <<"multiboot,ramdisk", "multiboot,module">>),
                           BytesProp("reg", [i \in 1..16 |-> 100 + i])>>]

RECURSIVE PropNames(_)
PropNames(props) ==
    IF props = << >> THEN {} ELSE {Head(props).name} \cup PropNames(Tail(props))
RECURSIVE StringsOf(_)
StringsOf(nodes) ==
    IF nodes = << >> THEN {} ELSE PropNames(Head(nodes).props) \cup StringsOf(Tail(nodes))

TreeOf(nodes, free) == [nodes |-> nodes, strings |-> StringsOf(nodes), free |-> free]

TargetNodes == {<<ChosenNode>>, <<ChosenNode, OldMemory>>, <<OldModule, ChosenNode>>,
                <<OldModule, ChosenNode, OldMemory>>}
TargetTrees == {TreeOf(nodes, free) : nodes \in TargetNodes, free \in FreeChoices}

\* The source's /memory node with a `reg` of the given number of cells.
SourceMemory(cells) ==
    [path  |-> <<"memory">>,
     props |-> <<StringsProp("device_type", <<"memory">>),
                 BytesProp("reg", [i \in 1..(cells * CellBytes) |-> 16 + i])>>]
SourceNodes ==
    {<<ChosenNode>>,
     <<ChosenNode, [path |-> <<"memory">>,
                    props |-> <<StringsProp("device_type", <<"memory">>)>>]>>}
    \cup {<<ChosenNode, SourceMemory(cells)>> : cells \in 0..MaxRegCells}
SourceTrees == {TreeOf(nodes, 0) : nodes \in SourceNodes}

\* The arguments main passes for a module: where it was loaded, its size and role.
ModuleArgs ==
    {[module |-> <<0, 0, 0, 0, 0, 0, 48, 0>>, size |-> 4096, compatible |-> "multiboot,kernel"],
     [module |-> <<0, 0, 0, 1, 128, 0, 0, 0>>, size |-> 16, compatible |-> "multiboot,ramdisk"]}
ModuleNames == {"/module@0", "/module@1"}

InitPatch ==
    /\ tgt \in TargetTrees
    /\ tgt0 = tgt
    /\ srcfdt \in SourceTrees
    /\ call = [fn |-> "none", n |-> 0]
    /\ IdleLoader
    /\ IdleLocator

Summary(c) == IF c.fn = "update_fdt_for_xen"
              THEN [fn |-> c.fn, name |-> c.module_node_name, rc |-> c.rc]
              ELSE [fn |-> c.fn, name |-> "", rc |-> IF c.fn = "none" THEN SUCCESS ELSE c.rc]

\* One call of update_fdt_for_xen on the target tree.
UpdateForXen(args, module_node_name) ==
    /\ call.n < MaxCalls
    /\ LET r == update_fdt_for_xen(tgt, args.module, args.size, args.compatible,
                                   module_node_name) IN
          /\ tgt' = r.t
          /\ call' = [fn |-> "update_fdt_for_xen", n |-> call.n + 1,
                      module |-> args.module, size |-> args.size,
                      compatible |-> args.compatible,
                      module_node_name |-> module_node_name,
                      rc |-> r.rc, steps |-> r.steps, prev |-> Summary(call)]
    /\ tgt0' = tgt
    /\ UNCHANGED srcfdt
    /\ UNCHANGED loaderVars
    /\ UNCHANGED locatorVars

\* One call of update_fdt_memory(target_fdt, fdt).
UpdateMemory ==
    /\ call.n < MaxCalls
    /\ LET r == update_fdt_memory(tgt, srcfdt) IN
          /\ tgt' = r.t
          /\ call' = [fn |-> "update_fdt_memory", n |-> call.n + 1,
                      rc |-> r.rc, prev |-> Summary(call)]
    /\ tgt0' = tgt
    /\ UNCHANGED srcfdt
    /\ UNCHANGED loaderVars
    /\ UNCHANGED locatorVars

NextPatch ==
    \/ \E args \in ModuleArgs, name \in ModuleNames : UpdateForXen(args, name)
    \/ UpdateMemory

SpecPatch == InitPatch /\ [][NextPatch]_vars

-----------------------------------------------------------------------------
(* image.c: the device-tree loader.  A tree blob in `b` carries, besides   *)
(* its header, its nodes and the free bytes inside its total size.         *)

\* An int read from four bytes, most significant first (two's complement).
ToInt32(x) ==
    IF x[1] < 128 THEN BEValue(x)
    ELSE (BEValue(<<x[1] - 128, x[2], x[3], x[4]>>) - 2147483647) - 1

\* fdt_open_into: the donor tree at `fdt` unpacked into the bufsize bytes
\* at `buf`.  The buffers considered coincide or lie clear of each other.
fdt_open_into(b, fdt, buf, bufsize) ==
    LET err   == fdt_check_header(b, fdt)
        total == BEValue(fdt_totalsize(b, fdt))
        donor == BlobAt(b, fdt)
    IN  IF err # SUCCESS THEN [rc |-> err, b |-> b]
        ELSE IF total > bufsize THEN [rc |-> -FDT_ERR_NOSPACE, b |-> b]
        ELSE [rc |-> SUCCESS,
              b  |-> [p \in DOMAIN b \cup {buf} |->
                         IF p = buf
                         THEN [donor EXCEPT !.version = FDT_LAST_SUPPORTED_VERSION,
                                            !.totalsize = CellOf(bufsize),
                                            !.free = @ + (bufsize - total)]
                         ELSE b[p]]]

\* __read_extra_space_from_fdt: the cell, converted to CPU order, as an int.
read_extra_space_from_fdt(extra_space_location) ==
    ToInt32(fdt32_to_cpu(Deref32(extra_space_location)))

\* A loader that gives the tree no more than its data's size.
GrownSize_ungrown(size, extra_space) == size

\* size += extra_space.
GrownSize(size, extra_space) == size + extra_space

\* A loader that gives back NULL when the tree could not be unpacked.
UnpackedAt_checked(opened, load_location) ==
    IF opened.rc # SUCCESS THEN NULL ELSE load_location

\* fdt_open_into(...); return load_location: the result of the unpacking
\* is not looked at.
UnpackedAt(opened, load_location) == load_location

\* A loader that goes on without the extra-space property.
ExtraSpaceMissing_optional(extra_space_size) == FALSE

\* if(extra_space_size <= 0) return NULL.
ExtraSpaceMissing(extra_space_size) == extra_space_size <= 0

\* load_image_fdt.  `m` is the memory the container's properties lie in,
\* `locals` are its uninitialised locals.
load_image_fdt(m, b, image, path, locals) ==
    LET info == get_subcomponent_information(m, image, path,
                    [valid |-> TRUE, load_location |-> locals.load_location,
                     data_location |-> locals.data_location, size |-> locals.size])
        node  == IF info.assigned THEN info.node ELSE locals.node
        extra == fdt_getprop(m, image, node, "extra-space")
        extra_space == IF extra.len >= CellBytes
                       THEN read_extra_space_from_fdt(extra.bytes) ELSE 0
        size   == GrownSize(info.size, extra_space)
        opened == fdt_open_into(b, PtrOf(info.data_location), info.load_location, size)
        none   == [ret |-> NULL, rc |-> info.rc, assigned |-> info.assigned,
                   extra_space_size |-> extra.len, called |-> FALSE,
                   open_rc |-> SUCCESS, size |-> 0, b |-> b]
    IN  IF info.rc # SUCCESS THEN none
        ELSE IF ExtraSpaceMissing(extra.len) THEN none
        ELSE [ret |-> UnpackedAt(opened, info.load_location), rc |-> info.rc,
              assigned |-> info.assigned, extra_space_size |-> extra.len,
              called |-> TRUE, open_rc |-> opened.rc, size |-> size, b |-> opened.b]

-----------------------------------------------------------------------------
(* The device-tree loader's specification: a FIT container whose           *)
(* /images/fdt@1 node names a donor tree, and calls of load_image_fdt.     *)

FdtPath == "/images/fdt@1"

\* Where the donor tree's data lies, and a destination clear of it.
DonorAt == 4096
FarAt   == 8192

\* The values of `extra-space`: nothing, 8, 256, and 0xffffffff.
ExtraSpaceCells == {<<0, 0, 0, 0>>, <<0, 0, 0, 8>>, <<0, 0, 1, 0>>, <<255, 255, 255, 255>>}

TreeSizes == HeaderBytes..MaxTotalSize

\* The memory the `data` property points into; what lies there is told by
\* the blob at that address.
DataBytes == [a \in DonorAt..(DonorAt + MaxTotalSize) |-> 0]

\* The properties a producer may have given the node.
DataProps  == {<< >>} \cup {<< [name |-> "data", at |-> DonorAt, len |-> s] >> :
                               s \in {0} \cup TreeSizes}
\* A placement given as `reg`: address 0x100002000, above 4 GiB, and a size,
\* each as two 32-bit words, high word first.
RegAbove4G == <<0, 0, 0, 1>> \o CellOf(FarAt) \o Zeros(4) \o CellOf(MaxTotalSize)
LoadProps  == {<< >>, << [name |-> "load", val |-> << >>] >>,
               << [name |-> "reg", val |-> RegAbove4G] >>}
              \cup {<< [name |-> "load", val |-> CellOf(a)] >> : a \in {DonorAt, FarAt}}
ExtraProps == {<< >>, << [name |-> "extra-space", val |-> << >>] >>}
              \cup {<< [name |-> "extra-space", val |-> e] >> : e \in ExtraSpaceCells}

FdtContainers ==
    {[nodes |-> << >>]}
    \cup {[nodes |-> << [path |-> PathSplit(FdtPath), props |-> d \o l \o e] >>] :
            d \in DataProps, l \in LoadProps, e \in ExtraProps}

\* The donor: a device tree of some total size, or something else.
DonorNodes == <<ChosenNode, OldMemory>>
Donors ==
    [magic : {FDT_MAGIC, DeadBeef}, version : {FDT_LAST_SUPPORTED_VERSION},
     last_comp_version : {16}, totalsize : {CellOf(n) : n \in TreeSizes},
     nodes : {DonorNodes}, strings : {StringsOf(DonorNodes)}, free : {0}]
\* What may lie at the far destination before the load.
StaleTree ==
    [magic |-> FDT_MAGIC, version |-> FDT_LAST_SUPPORTED_VERSION, last_comp_version |-> 16,
     totalsize |-> CellOf(HeaderBytes), nodes |-> <<ChosenNode>>,
     strings |-> StringsOf(<<ChosenNode>>), free |-> 0]

\* What a load call finds in its uninitialised locals.
FdtGarbage ==
    [load_location : {NULL, PtrOf(FarAt)}, data_location : {0}, size : {-1, HeaderBytes},
     node : {0, 1}]

InitUnpack ==
    /\ fit \in FdtContainers
    /\ \E donor \in Donors, stale \in BOOLEAN :
          blobs = IF stale
                  THEN (PtrOf(DonorAt) :> donor) @@ (PtrOf(FarAt) :> StaleTree)
                  ELSE (PtrOf(DonorAt) :> donor)
    /\ call = [fn |-> "none"]
    /\ boot = << >>
    /\ mem = << >> /\ mem0 = << >> /\ pre = << >> /\ hist = << >>
    /\ IdlePatcher

\* One call of load_image_fdt(fit, "/images/fdt@1").
LoadImageFdt(locals) ==
    /\ LET r == load_image_fdt(DataBytes, blobs, fit, FdtPath, locals) IN
          /\ blobs' = r.b
          /\ call' = [fn |-> "load_image_fdt", path |-> FdtPath, ret |-> r.ret,
                      rc |-> r.rc, assigned |-> r.assigned,
                      extra_space_size |-> r.extra_space_size,
                      called |-> r.called, open_rc |-> r.open_rc, size |-> r.size,
                      before |-> blobs]
    /\ UNCHANGED <<fit, boot>>
    /\ UNCHANGED <<mem, mem0, pre, hist>>
    /\ UNCHANGED patcherVars

NextUnpack == \E locals \in FdtGarbage : LoadImageFdt(locals)

SpecUnpack == InitUnpack /\ [][NextUnpack]_vars

-----------------------------------------------------------------------------
(* main.c: the boot sequence.  `call` holds main's position and locals,    *)
(* `hist` the steps it has made; `boot` is the FDT main is entered with,   *)
(* `fit` the /images nodes of the FIT image, `mem` the memory the          *)
(* components lie in, `tgt` the tree at /images/fdt@1's load address, and  *)
(* `blobs` the headers at the addresses main looks at.                     *)

\* A main that takes a component that was not loaded for loaded.
LoadFailed_never(component) == FALSE

\* if(!component) panic(...), in load_image_component_verbosely.
LoadFailed(component) == component = NULL

\* A main that loads the dom0 kernel first.
LoadOrder_dom0_first ==
    <<"/images/linux_kernel@1", "/images/xen_kernel@1", "/images/fdt@1">>

\* The components in the order main loads them.
LoadOrder ==
    <<"/images/xen_kernel@1", "/images/fdt@1", "/images/linux_kernel@1">>

\* A main that synchronises the memory topology whatever the FIT image is.
SyncNeeded_always(fdt, fit_image) == TRUE

\* if(fdt != fit_image).
SyncNeeded(fdt, fit_image) == fdt # fit_image

\* The components lie behind their three `load` cells, one byte each, and
\* are loaded where they lie.
Components == {"/images/xen_kernel@1", "/images/fdt@1", "/images/linux_kernel@1"}
ComponentIndex(path) ==
    CASE path = "/images/xen_kernel@1" -> 1
      [] path = "/images/fdt@1" -> 2
      [] path = "/images/linux_kernel@1" -> 3
MainCellAt(k) == (k - 1) * CellBytes
MainDataAt(k) == 3 * CellBytes + (k - 1)

\* A component as the image's producer wrote it: not at all, with an empty
\* `data`, or whole.
ComponentStates == {"absent", "empty", "whole"}

MainComponentNode(path, state) ==
    [path  |-> PathSplit(path),
     props |-> << [name |-> "data", at |-> MainDataAt(ComponentIndex(path)),
                   len |-> IF state = "whole" THEN 1 ELSE 0],
                  [name |-> "load", at |-> MainCellAt(ComponentIndex(path)),
                   len |-> CellBytes] >>]

MainImages(states) ==
    (IF states["/images/xen_kernel@1"] = "absent" THEN << >>
     ELSE << MainComponentNode("/images/xen_kernel@1", states["/images/xen_kernel@1"]) >>)
    \o (IF states["/images/fdt@1"] = "absent" THEN << >>
        ELSE << MainComponentNode("/images/fdt@1", states["/images/fdt@1"]) >>)
    \o (IF states["/images/linux_kernel@1"] = "absent" THEN << >>
        ELSE << MainComponentNode("/images/linux_kernel@1",
                                  states["/images/linux_kernel@1"]) >>)

\* Memory as main finds it: the three `load` cells, each naming the address
\* of its component's data, and everywhere else a byte that tells the
\* address it started at.
MainMemory ==
    [a \in Addrs |->
        IF a < 3 * CellBytes
        THEN CellOf(MainDataAt((a \div CellBytes) + 1))[(a % CellBytes) + 1]
        ELSE 16 + a]

\* Where the FIT image lies when the boot FDT names one.
FitAt == PtrOf(FarAt)

\* The boot FDT's /chosen: absent, without the property, or naming FitAt.
MainChosen ==
    {<< >>, << ChosenNode >>,
     << [path  |-> <<"chosen">>,
         props |-> <<StringsProp("bootargs", <<"console=ttyS0">>),
                     BytesProp("linux,initrd-start", CellOf(FarAt))>>] >>}
\* The boot FDT's /memory: absent, or with a `reg` of two cells.
MainSourceMemory == {<< >>, << SourceMemory(2) >>}
MainBootTrees == {TreeOf(c \o m, 0) : c \in MainChosen, m \in MainSourceMemory}

\* Headers that do not pass fdt_check_header: no magic, a version too old.
BadHeader == [BootHeader EXCEPT !.magic = DeadBeef]
OldHeader == [BootHeader EXCEPT !.version = 1]

\* The headroom the target tree was given: none, enough for the module
\* node, enough for everything.
MainFree == {0, MaxFreeSteps * FreeStep, 2 * MaxFreeSteps * FreeStep}

\* The addresses target_fdt can come to hold: the component's load address
\* and what load_image_component may find in its uninitialised local.
TargetAddrs == {MainDataAt(ComponentIndex("/images/fdt@1")), MemSize - 1}

\* The tree main works on at `image`: the FIT image's nodes lie in the boot
\* FDT itself when there is no subimage.
ImageAt(image) ==
    IF image = boot.at THEN [nodes |-> boot.tree.nodes \o fit.nodes] ELSE fit

\* main is entered with the boot FDT's address.
InitMain ==
    /\ \E tree \in MainBootTrees, hdr \in {BootHeader, BadHeader},
          fithdr \in {BootHeader, BadHeader, OldHeader},
          tgthdr \in {BootHeader, BadHeader} :
          /\ boot   = [at |-> BootAt, tree |-> tree]
          /\ srcfdt = tree
          /\ blobs  = (BootAt :> hdr) @@ (FitAt :> fithdr)
                      @@ [p \in {PtrOf(a) : a \in TargetAddrs} |-> tgthdr]
    /\ \E states \in [Components -> ComponentStates] :
          fit = [nodes |-> MainImages(states)]
    /\ mem = MainMemory /\ mem0 = MainMemory /\ pre = MainMemory
    /\ \E free \in MainFree : tgt = TreeOf(<<ChosenNode, OldMemory>>, free)
    /\ tgt0 = tgt
    /\ hist = << >>
    /\ call = [fn |-> "main", pc |-> "load_device_tree", loads |-> 0,
               fit_image |-> NULL, xen_kernel |-> NULL, target_fdt |-> NULL,
               dom0_kernel |-> NULL, dom0_kernel_size |-> 0,
               kernel |-> NULL, arg |-> NULL, warned |-> FALSE]

Step(name, path, rc, ret) == [step |-> name, path |-> path, rc |-> rc, ret |-> ret]

\* load_device_tree(fdt).
MainLoadDeviceTree ==
    /\ call.fn = "main" /\ call.pc = "load_device_tree"
    /\ LET r == ensure_image_is_accessible(blobs, boot.at) IN
          /\ hist' = Append(hist, Step("load_device_tree", "", r.rc, boot.at))
          /\ call' = [call EXCEPT !.pc = IF r.rc # SUCCESS THEN "panic"
                                         ELSE "find_fit_subimage"]
    /\ UNCHANGED <<mem, mem0, pre, fit, blobs, boot, tgt, tgt0, srcfdt>>

\* fit_image = find_fit_subimage(fdt).
MainFindFitSubimage ==
    /\ call.fn = "main" /\ call.pc = "find_fit_subimage"
    /\ LET r == find_fit_subimage(blobs, boot) IN
          /\ hist' = Append(hist, Step("find_fit_subimage", "", SUCCESS, r.ret))
          /\ call' = [call EXCEPT !.fit_image = r.ret,
                                  !.pc = IF r.ret = NULL THEN "panic"
                                         ELSE "load_image_component"]
    /\ UNCHANGED <<mem, mem0, pre, fit, blobs, boot, tgt, tgt0, srcfdt>>

\* The next load_image_component_verbosely(fit_image, path, ..., size):
\* size is &dom0_kernel_size for the dom0 kernel and NULL for the others.
MainLoadComponent(locals) ==
    /\ call.fn = "main" /\ call.pc = "load_image_component"
    /\ LET path == LoadOrder[call.loads + 1]
           r == load_image_component(mem, ImageAt(call.fit_image), path, locals,
                                     path = "/images/linux_kernel@1")
       IN /\ mem' = r.mem
          /\ pre' = mem
          /\ hist' = Append(hist, Step("load_image_component", path, r.rc, r.ret))
          /\ call' = [call EXCEPT
                 !.loads = @ + 1,
                 !.xen_kernel = IF path = "/images/xen_kernel@1" THEN r.ret ELSE @,
                 !.target_fdt = IF path = "/images/fdt@1" THEN r.ret ELSE @,
                 !.dom0_kernel = IF path = "/images/linux_kernel@1" THEN r.ret ELSE @,
                 !.dom0_kernel_size = IF r.out_size_set THEN r.out_size ELSE @,
                 !.pc = IF LoadFailed(r.ret) THEN "panic"
                        ELSE IF call.loads + 1 = Len(LoadOrder) THEN "update_fdt_for_xen"
                        ELSE "load_image_component"]
    /\ UNCHANGED <<mem0, fit, blobs, boot, tgt, tgt0, srcfdt>>

\* rc = update_fdt_for_xen(target_fdt, dom0_kernel, dom0_kernel_size); the
\* role and the node's name are not among the arguments main passes.
MainUpdateForXen(compatible, module_node_name) ==
    /\ call.fn = "main" /\ call.pc = "update_fdt_for_xen"
    /\ LET r == update_fdt_for_xen(tgt, call.dom0_kernel, call.dom0_kernel_size,
                                   compatible, module_node_name) IN
          /\ tgt' = r.t
          /\ hist' = Append(hist, Step("update_fdt_for_xen", module_node_name, r.rc,
                                       call.target_fdt))
          /\ call' = [call EXCEPT !.pc = IF r.rc # SUCCESS THEN "panic"
                                         ELSE "update_fdt_memory"]
    /\ UNCHANGED <<mem, mem0, pre, fit, blobs, boot, tgt0, srcfdt>>

\* if(fdt != fit_image) rc = update_fdt_memory(target_fdt, fdt).
MainUpdateMemory ==
    /\ call.fn = "main" /\ call.pc = "update_fdt_memory"
    /\ SyncNeeded(boot.at, call.fit_image)
    /\ LET r == update_fdt_memory(tgt, srcfdt) IN
          /\ tgt' = r.t
          /\ hist' = Append(hist, Step("update_fdt_memory", "", r.rc, call.target_fdt))
          /\ call' = [call EXCEPT !.pc = IF r.rc # SUCCESS THEN "panic"
                                         ELSE "launch_kernel"]
    /\ UNCHANGED <<mem, mem0, pre, fit, blobs, boot, tgt0, srcfdt>>

\* The same statement when fdt = fit_image: nothing is called.
MainSkipMemory ==
    /\ call.fn = "main" /\ call.pc = "update_fdt_memory"
    /\ ~SyncNeeded(boot.at, call.fit_image)
    /\ call' = [call EXCEPT !.pc = "launch_kernel"]
    /\ UNCHANGED <<mem, mem0, pre, fit, hist, blobs, boot, tgt, tgt0, srcfdt>>

\* launch_kernel(xen_kernel, target_fdt): a warning when the header check
\* fails, then the jump to the kernel.
MainLaunchKernel ==
    /\ call.fn = "main" /\ call.pc = "launch_kernel"
    /\ LET rc == fdt_check_header(blobs, call.target_fdt) IN
          /\ hist' = Append(hist, Step("launch_kernel", "", rc, call.xen_kernel))
          /\ call' = [call EXCEPT !.pc = "kernel", !.kernel = call.xen_kernel,
                                  !.arg = call.target_fdt, !.warned = rc # SUCCESS]
    /\ UNCHANGED <<mem, mem0, pre, fit, blobs, boot, tgt, tgt0, srcfdt>>

\* A main that tries the launch again when the kernel has returned.
AfterKernelReturns_relaunch == "launch_kernel"

\* panic("Discharge terminated without transferring control to Xen!").
AfterKernelReturns == "panic"

\* The kernel returns to main: panic.
MainKernelReturns ==
    /\ call.fn = "main" /\ call.pc = "kernel"
    /\ hist' = Append(hist, Step("returned", "", SUCCESS, NULL))
    /\ call' = [call EXCEPT !.pc = AfterKernelReturns]
    /\ UNCHANGED <<mem, mem0, pre, fit, blobs, boot, tgt, tgt0, srcfdt>>

NextMain ==
    \/ MainLoadDeviceTree
    \/ MainFindFitSubimage
    \/ \E locals \in Garbage : MainLoadComponent(locals)
    \/ \E name \in ModuleNames : MainUpdateForXen("multiboot,kernel", name)
    \/ MainUpdateMemory
    \/ MainSkipMemory
    \/ MainLaunchKernel
    \/ MainKernelReturns

SpecMain == InitMain /\ [][NextMain]_vars

\* main's own statements: every one of them is executed when it is reached;
\* whether the kernel ever returns is the kernel's affair.
MainProgress ==
    \/ MainLoadDeviceTree
    \/ MainFindFitSubimage
    \/ \E locals \in Garbage : MainLoadComponent(locals)
    \/ \E name \in ModuleNames : MainUpdateForXen("multiboot,kernel", name)
    \/ MainUpdateMemory
    \/ MainSkipMemory
    \/ MainLaunchKernel

\* main is at one of its statements; each of them can then be executed.
MainBusy == call.fn = "main" /\ call.pc \notin {"kernel", "panic"}

\* Weak fairness of main's statements, WF_vars(MainProgress), with
\* ENABLED <<MainProgress>>_vars written out as MainBusy.
FairSpecMain == SpecMain /\ (<>[]MainBusy => []<><<MainProgress>>_vars)

-----------------------------------------------------------------------------
(* microlib.c: strnlen.  `mem` holds the string, its characters followed   *)
(* by the terminating NUL; a character is read when the loop tests it.     *)

\* Longest string and largest `max` considered.
MaxStrLen == 4
MaxScan == 5

\* strnlen's loop from character s on, n characters counted so far: the
\* result, and the indexes (from 0) of the characters read.
RECURSIVE strnlen_from(_, _, _, _, _)
strnlen_from(m, s, n, max, reads) ==
    IF m[s + 1] = 0 THEN [ret |-> n, reads |-> reads \cup {s}]
    ELSE IF n + 1 = max THEN [ret |-> n + 1, reads |-> reads \cup {s}]
    ELSE strnlen_from(m, s + 1, n + 1, max, reads \cup {s})

\* size_t strnlen(const char *s, size_t max), s pointing at the string's
\* first character.
strnlen(m, max) == strnlen_from(m, 0, 0, max, {})

\* The NUL-terminated strings of up to MaxStrLen characters.
Chars == {65, 66}
Strings ==
    {chars \o <<0>> : chars \in UNION {[1..len -> Chars] : len \in 0..MaxStrLen}}

InitStrnlen ==
    /\ mem \in Strings
    /\ call = [fn |-> "none"]
    /\ mem0 = << >> /\ pre = << >> /\ fit = << >> /\ hist = << >>
    /\ IdleLocator
    /\ IdlePatcher

\* One call of strnlen(s, max).
Strnlen(max) ==
    /\ LET r == strnlen(mem, max) IN
          call' = [fn |-> "strnlen", max |-> max, ret |-> r.ret, reads |-> r.reads]
    /\ UNCHANGED <<mem, mem0, pre, fit, hist>>
    /\ UNCHANGED locatorVars
    /\ UNCHANGED patcherVars

NextStrnlen == \E max \in 0..MaxScan : Strnlen(max)

SpecStrnlen == InitStrnlen /\ [][NextStrnlen]_vars

-----------------------------------------------------------------------------
(* Properties of the loader.                                               *)

\* The FIT node at `path`, as the container describes it in memory m: the
\* size and place of its `data` and the address its `load` cell decodes to.
HasNode(path)   == NodeIndexes(fit, PathSplit(path)) # {}
NodeOf(path)    == fit.nodes[Min(NodeIndexes(fit, PathSplit(path)))]
HasProp(path, name) ==
    HasNode(path) /\ \E i \in 1..Len(NodeOf(path).props) : NodeOf(path).props[i].name = name
PropOf(path, name) ==
    NodeOf(path).props[CHOOSE i \in 1..Len(NodeOf(path).props) :
                           NodeOf(path).props[i].name = name]
DataSize(path)  == PropOf(path, "data").len
DataFrom(path)  == PropOf(path, "data").at
LoadAddr(m, path) ==
    BEValue([i \in 1..CellBytes |-> m[PropOf(path, "load").at + i - 1]])

\* The node has `data` of size S > 0 and a one-cell `load` whose address,
\* read from memory m, leaves the S bytes inside the modelled memory.
WellFormedIn(m, path) ==
    /\ HasProp(path, "data") /\ DataSize(path) > 0
    /\ HasProp(path, "load") /\ PropOf(path, "load").len = CellBytes
    /\ LoadAddr(m, path) + DataSize(path) <= MemSize

\* C1: for a FIT node whose `data` has size S > 0 and whose `load` cell
\* decodes to address A, load_image_component returns A, reports size S,
\* leaves at [A, A+S) the S bytes that were at the data pointer before the
\* call, whatever the relative position of the two ranges, and writes no
\* byte outside [A, A+S).
C1_LoadCopiesDataVerbatim ==
    (call.fn = "load_image_component" /\ WellFormedIn(pre, call.path)) =>
        LET A == LoadAddr(pre, call.path)
            S == DataSize(call.path)
            D == DataFrom(call.path)
        IN  /\ call.ret = PtrOf(A)
            /\ call.want_size => (call.out_size_set /\ call.out_size = S)
            /\ \A i \in 0..(S - 1) : mem[A + i] = pre[D + i]
            /\ \A a \in Addrs : (a < A \/ a >= A + S) => mem[a] = pre[a]

\* C1's case: a load whose destination lies above its source and overlaps
\* it, the position a forward copy gets wrong.
C1_Witness_OverlapAbove ==
    /\ call.fn = "load_image_component"
    /\ WellFormedIn(pre, call.path)
    /\ DataSize(call.path) >= 2
    /\ LoadAddr(pre, call.path) > DataFrom(call.path)
    /\ LoadAddr(pre, call.path) < DataFrom(call.path) + DataSize(call.path)
    /\ call.ret = PtrOf(LoadAddr(pre, call.path))
    /\ \E a \in Addrs : mem[a] # pre[a]

\* Address ranges, as sets of addresses.
Range(from, n) == {a \in Addrs : a >= from /\ a < from + n}
DestRange(path) == Range(LoadAddr(mem0, path), DataSize(path))
SrcRange(path)  == Range(DataFrom(path), DataSize(path))
MetaRange(path) == Range(PropOf(path, "load").at, CellBytes)

\* Every load made so far was of a well-formed component, and no earlier
\* load's destination overlaps the source bytes or the `load` cell of a
\* later one.
LoadedInSafeOrder ==
    /\ \A i \in 1..Len(hist) : WellFormedIn(mem0, hist[i].path)
    /\ \A i, j \in 1..Len(hist) :
          i < j => /\ DestRange(hist[i].path) \cap SrcRange(hist[j].path) = {}
                   /\ DestRange(hist[i].path) \cap MetaRange(hist[j].path) = {}

\* No two of the loads made so far have overlapping destinations.
DestinationsDisjoint ==
    \A i, j \in 1..Len(hist) :
        i < j => DestRange(hist[i].path) \cap DestRange(hist[j].path) = {}

\* Every loaded component's destination holds its original source bytes.
AllDestinationsVerbatim ==
    \A i \in 1..Len(hist) :
        \A k \in 0..(DataSize(hist[i].path) - 1) :
            mem[LoadAddr(mem0, hist[i].path) + k] = mem0[DataFrom(hist[i].path) + k]

\* C2 as stated: components loaded in an order in which no earlier
\* destination overlaps a later source (or its metadata) all end up
\* verbatim at their destinations.
C2_Original_SafeOrderKeepsAll ==
    LoadedInSafeOrder => AllDestinationsVerbatim

\* C2, amended: the same, provided the destinations do not overlap each
\* other either.
C2_SafeOrderDisjointDestinationsKeepAll ==
    (LoadedInSafeOrder /\ DestinationsDisjoint) => AllDestinationsVerbatim

\* C2's case: two components loaded in a safe order, the second one's
\* destination lying over the first one's already-read source bytes.
C2_Witness_TwoLoads ==
    /\ Len(hist) = 2
    /\ LoadedInSafeOrder /\ DestinationsDisjoint
    /\ DestRange(hist[2].path) \cap SrcRange(hist[1].path) # {}
    /\ DestRange(hist[1].path) \cap SrcRange(hist[1].path) = {}
    /\ AllDestinationsVerbatim

-----------------------------------------------------------------------------
(* Properties of the cache-coherence gate and the locator.                 *)

OpsOfKind(ops, kinds) == {i \in 1..Len(ops) : ops[i].op \in kinds}
CacheOps    == {"invalidate_line", "invalidate_region"}
PropertyOps == {"fdt_getprop", "fdt_path_offset", "fdt_totalsize"}

GateCalled   == call.fn = "ensure_image_is_accessible"
StartsWithMagic(image) == BlobAt(blobs, image).magic = FDT_MAGIC
ValidHeader(image) ==
    /\ StartsWithMagic(image)
    /\ BlobAt(blobs, image).version >= FDT_FIRST_SUPPORTED_VERSION
    /\ BlobAt(blobs, image).last_comp_version <= FDT_LAST_SUPPORTED_VERSION

\* C3 as stated: on a buffer that does not start with the device-tree
\* magic the gate returns an error and performs no cache-coherence
\* operation and no property operation on it.
C3_Original_NoCacheOpOnInvalidBuffer ==
    (GateCalled /\ ~StartsWithMagic(call.image)) =>
        /\ call.rc # SUCCESS
        /\ OpsOfKind(call.ops, CacheOps \cup PropertyOps) = {}

\* C3, amended: on such a buffer the gate returns an error, having
\* invalidated exactly one cache line, at the start of the buffer and before
\* the header check, and performed no region invalidation and no property
\* operation.
C3_InvalidBufferOnlyFirstLineInvalidated ==
    (GateCalled /\ ~StartsWithMagic(call.image)) =>
        /\ call.rc # SUCCESS
        /\ call.ops = << invalidate_cache_line(call.image), CheckHeaderOp(call.image) >>
        /\ OpsOfKind(call.ops, {"invalidate_region"} \cup PropertyOps) = {}

\* C3's case: the gate run on a buffer holding 0xdeadbeef.
C3_Witness_DeadBeef ==
    /\ GateCalled
    /\ BlobAt(blobs, call.image).magic = DeadBeef
    /\ call.rc = -FDT_ERR_BADMAGIC

\* C4: on a buffer with a valid header the gate returns SUCCESS, having
\* invalidated one cache line at the start of the buffer, then checked the
\* header, then invalidated the region (image, total size); every byte of
\* [image, image + totalsize) is then covered by the region invalidated.
C4_ValidImageTwoPhaseInvalidation ==
    (GateCalled /\ ValidHeader(call.image)) =>
        LET total == BlobAt(blobs, call.image).totalsize IN
        /\ call.rc = SUCCESS
        /\ call.ops = << [op |-> "invalidate_line", addr |-> call.image],
                         CheckHeaderOp(call.image),
                         [op |-> "invalidate_region", addr |-> call.image, size |-> total] >>
        /\ \A k \in 0..(BEValue(total) - 1) :
              \E i \in OpsOfKind(call.ops, {"invalidate_region"}) :
                  call.ops[i].addr = call.image /\ k < BEValue(call.ops[i].size)

\* C4's case: the gate run on a valid tree that is not the boot FDT.
C4_Witness_ValidSubimage ==
    /\ GateCalled
    /\ call.image # BootAt
    /\ ValidHeader(call.image)
    /\ call.rc = SUCCESS
    /\ Len(call.ops) = 3

LocatorCalled == call.fn = "find_fit_subimage"
HasChosen     == NodeIndexes(boot.tree, <<"chosen">>) # {}
Initrd        ==
    fdt_getprop(<< >>, boot.tree, Min(NodeIndexes(boot.tree, <<"chosen">>)),
                "linux,initrd-start")
\* The boot tree's /chosen has the property, holding at least one cell.
HasInitrdCell == HasChosen /\ Initrd.len >= CellBytes
\* The cell's four bytes, which are its value read big-endian.
InitrdCell    == SubSeq(Initrd.bytes, 1, CellBytes)

\* C5: when /chosen/linux,initrd-start holds cell value V and a valid tree
\* lies at that address, find_fit_subimage returns V, read as a big-endian
\* 32-bit integer and zero-extended: the four high bytes of the pointer are
\* zero, so it is below 2^32.
C5_SubimageIsBigEndianCellZeroExtended ==
    (LocatorCalled /\ HasInitrdCell /\ ValidHeader(Zeros(4) \o InitrdCell)) =>
        /\ SubSeq(call.ret, 5, 8) = InitrdCell
        /\ SubSeq(call.ret, 1, 4) = <<0, 0, 0, 0>>
        /\ Len(call.ret) = 8

\* C5's case: a cell at or above 2^31 whose bytes read differently in the
\* two byte orders, with a valid tree at the address.
C5_Witness_HighAddress ==
    /\ LocatorCalled /\ HasInitrdCell
    /\ InitrdCell = <<255, 1, 0, 0>>
    /\ ValidHeader(Zeros(4) \o InitrdCell)
    /\ call.ret = <<0, 0, 0, 0, 255, 1, 0, 0>>

\* The boot tree lacks the property: no /chosen, no property, or an empty one.
LacksInitrd == ~HasChosen \/ Initrd.len <= 0

\* C6 as stated: for every boot tree lacking the property, /chosen absent
\* included, find_fit_subimage returns the boot tree's own pointer, never
\* NULL.
C6_Original_AlwaysFallsBack ==
    (LocatorCalled /\ LacksInitrd) => (call.ret = boot.at /\ call.ret # NULL)

\* C6, amended: when /chosen exists and lacks the property (absent or of
\* zero length), find_fit_subimage returns the boot tree's own pointer;
\* when /chosen itself is absent it returns NULL.
C6_FallsBackWhenChosenExists ==
    (LocatorCalled /\ LacksInitrd) =>
        /\ HasChosen  => (call.ret = boot.at /\ call.ret # NULL)
        /\ ~HasChosen => call.ret = NULL

\* C6's case: /chosen has a zero-length linux,initrd-start and the locator
\* has returned the boot FDT.
C6_Witness_EmptyProperty ==
    /\ LocatorCalled /\ HasChosen /\ Initrd.len = 0
    /\ call.ret = BootAt

-----------------------------------------------------------------------------
(* Properties of the target-FDT patcher.                                   *)

XenCalled    == call.fn = "update_fdt_for_xen"
MemoryCalled == call.fn = "update_fdt_memory"

\* The root-level nodes of a tree that carry the given name.
NodesNamed(t, name) == NodeIndexes(t, <<name>>)
NodeNamed(t, name)  == t.nodes[Min(NodesNamed(t, name))]

\* The node's property of that name is exactly this value of this kind.
PropIs(node, name, kind, val) ==
    \E i \in 1..Len(node.props) :
       /\ node.props[i].name = name
       /\ node.props[i].kind = kind
       /\ node.props[i].val = val
       /\ \A j \in 1..Len(node.props) : node.props[j].name = name => j = i

\* A sequence without its element at index i.
Without(seq, i) == SubSeq(seq, 1, i - 1) \o SubSeq(seq, i + 1, Len(seq))

\* The structure- and strings-block bytes a module node takes when nothing
\* of it is in the tree yet.
XenHeadroom(name, compatible) ==
    NodeCost(name)
    + PropCost((Len(compatible) + 1) + (Len("multiboot,module") + 1))
    + (Len("compatible") + 1)
    + PropCost(4 * CellBytes) + (Len("reg") + 1)

\* The module node describes the last call's arguments and nothing else of
\* an earlier call.
DescribesLastCall(node) ==
    /\ PropIs(node, "compatible", "strings", <<call.compatible, "multiboot,module">>)
    /\ PropIs(node, "reg", "bytes", call.module \o BytesOfNat(call.size))

\* C7: update_fdt_for_xen is idempotent in node identity: when it is called
\* a second time with the name of the call before it, on a tree with enough
\* headroom, there is exactly one node of that name under the root, its
\* compatible is the two entries and its reg the two 64-bit cells of the
\* second call's arguments, and nothing of the first call is left in them.
C7_SecondCallReusesNode ==
    (/\ XenCalled
     /\ call.prev.fn = "update_fdt_for_xen"
     /\ call.prev.name = call.module_node_name
     /\ tgt0.free >= XenHeadroom(SkipFirstChar(call.module_node_name), call.compatible))
    => /\ call.rc = SUCCESS
       /\ Cardinality(NodesNamed(tgt, SkipFirstChar(call.module_node_name))) = 1
       /\ DescribesLastCall(NodeNamed(tgt, SkipFirstChar(call.module_node_name)))

\* C7's case: two successful calls with one name and different arguments.
C7_Witness_SecondCallOtherArguments ==
    /\ XenCalled
    /\ call.prev.fn = "update_fdt_for_xen"
    /\ call.prev.name = call.module_node_name
    /\ call.prev.rc = SUCCESS
    /\ call.rc = SUCCESS
    /\ tgt0.free >= XenHeadroom(SkipFirstChar(call.module_node_name), call.compatible)
    /\ ~PropIs(NodeNamed(tgt0, SkipFirstChar(call.module_node_name)), "compatible",
               "strings", <<call.compatible, "multiboot,module">>)

\* C8: on a target tree with enough headroom and no node of that name,
\* update_fdt_for_xen returns SUCCESS, the tree then has one root-level node
\* of the name whose compatible is [role, "multiboot,module"] and whose reg
\* is the big-endian 64-bit cells [addr, size], and every other node is as
\* it was.
C8_NewModuleNodeDescribesModule ==
    (/\ XenCalled
     /\ NodesNamed(tgt0, SkipFirstChar(call.module_node_name)) = {}
     /\ tgt0.free >= XenHeadroom(SkipFirstChar(call.module_node_name), call.compatible))
    => /\ call.rc = SUCCESS
       /\ Cardinality(NodesNamed(tgt, SkipFirstChar(call.module_node_name))) = 1
       /\ LET i == Min(NodesNamed(tgt, SkipFirstChar(call.module_node_name))) IN
             /\ DescribesLastCall(tgt.nodes[i])
             /\ Len(tgt.nodes[i].props) = 2
             /\ Without(tgt.nodes, i) = tgt0.nodes

\* C8's case: a module above 4 GiB described in a new node, next to nodes
\* the tree already had.
C8_Witness_NewNodeHighAddress ==
    /\ XenCalled
    /\ NodesNamed(tgt0, SkipFirstChar(call.module_node_name)) = {}
    /\ tgt0.free >= XenHeadroom(SkipFirstChar(call.module_node_name), call.compatible)
    /\ call.module[4] # 0
    /\ Len(tgt0.nodes) > 1
    /\ NodesNamed(tgt, SkipFirstChar(call.module_node_name)) # {}

\* The source tree's /memory node carries a `reg` property.
SourceHasMemory == NodesNamed(srcfdt, "memory") # {}
SourceHasReg ==
    /\ SourceHasMemory
    /\ \E i \in 1..Len(NodeNamed(srcfdt, "memory").props) :
          NodeNamed(srcfdt, "memory").props[i].name = "reg"
SourceReg ==
    LET node == NodeNamed(srcfdt, "memory") IN
    node.props[CHOOSE i \in 1..Len(node.props) : node.props[i].name = "reg"].val

\* The bytes a /memory node with a `reg` of len bytes takes when nothing of
\* it is in the tree yet.
MemoryHeadroom(len) == NodeCost("memory") + PropCost(len) + (Len("reg") + 1)

\* The other properties of the node are as they were.
OtherPropsKept(before, after, name) ==
    \A i \in 1..Len(before.props) :
       before.props[i].name # name =>
          \E j \in 1..Len(after.props) : after.props[j] = before.props[i]

\* C9: when the source tree has a /memory node with a reg of L bytes and the
\* target has enough headroom, a call of update_fdt_memory returns SUCCESS,
\* the target then has one /memory node (the one it had, or a new one) whose
\* reg is exactly the source's L bytes, unconverted, and the source tree is
\* as it was.
C9_MemoryRegCopiedVerbatim ==
    [][(/\ call'.fn = "update_fdt_memory"
        /\ call'.n = call.n + 1
        /\ SourceHasReg
        /\ tgt.free >= MemoryHeadroom(Len(SourceReg)))
       => /\ call'.rc = SUCCESS
          /\ srcfdt' = srcfdt
          /\ Cardinality(NodesNamed(tgt', "memory")) = 1
          /\ PropIs(NodeNamed(tgt', "memory"), "reg", "bytes", SourceReg)
          /\ Len(tgt'.nodes) = Len(tgt.nodes) + (IF NodesNamed(tgt, "memory") = {} THEN 1 ELSE 0)
          /\ NodesNamed(tgt, "memory") # {} =>
                OtherPropsKept(NodeNamed(tgt, "memory"), NodeNamed(tgt', "memory"), "reg")]_vars

\* C9's case: a source reg shorter than the reg the target's /memory had,
\* copied into that node.
C9_Witness_ReusedNodeShorterReg ==
    /\ MemoryCalled
    /\ call.rc = SUCCESS
    /\ SourceHasReg
    /\ Len(SourceReg) = 2 * CellBytes
    /\ NodesNamed(tgt0, "memory") # {}
    /\ tgt0.free >= MemoryHeadroom(Len(SourceReg))
    /\ PropIs(NodeNamed(tgt, "memory"), "reg", "bytes", SourceReg)
    /\ ~PropIs(NodeNamed(tgt0, "memory"), "reg", "bytes", SourceReg)

\* The claim as the specification states it: without a /memory node in the
\* source, the call fails with the node-not-found error and the target tree
\* is as it was.
C10_Original_TargetUnmodified ==
    (MemoryCalled /\ ~SourceHasMemory)
    => (call.rc = -FDT_ERR_NOTFOUND /\ tgt = tgt0)

\* C10: without a /memory node in the source, update_fdt_memory fails with
\* the node-not-found error once the target has a /memory node: a target
\* that had one is left as it was, a target that had none and has room for
\* one is left with a new, empty /memory node as the root's first child, and
\* a target that had none and has no room for one is left as it was with the
\* no-space error.
C10_NoSourceMemoryLeavesEmptyNode ==
    (MemoryCalled /\ ~SourceHasMemory)
    => IF NodesNamed(tgt0, "memory") # {}
       THEN call.rc = -FDT_ERR_NOTFOUND /\ tgt = tgt0
       ELSE IF tgt0.free >= NodeCost("memory")
       THEN /\ call.rc = -FDT_ERR_NOTFOUND
            /\ tgt.nodes = << [path |-> <<"memory">>, props |-> << >>] >> \o tgt0.nodes
            /\ tgt.strings = tgt0.strings
            /\ tgt.free = tgt0.free - NodeCost("memory")
       ELSE call.rc = -FDT_ERR_NOSPACE /\ tgt = tgt0

\* C10's case: the call fails on a source without /memory and the target,
\* which had no /memory node, has one.
C10_Witness_EmptyNodeAdded ==
    /\ MemoryCalled
    /\ ~SourceHasMemory
    /\ call.rc = -FDT_ERR_NOTFOUND
    /\ NodesNamed(tgt0, "memory") = {}
    /\ NodesNamed(tgt, "memory") # {}

-----------------------------------------------------------------------------
(* Properties of the extent resolver.                                      *)

\* The node at `path` has the property and its length is positive.
PositiveLength(path, name) == HasProp(path, name) /\ PropOf(path, name).len > 0

\* C11: get_subcomponent_information returns a non-SUCCESS code whenever the
\* node's `data` or `load` property is absent or of non-positive length, a
\* property present with length zero included, and SUCCESS only when the
\* path resolves and both properties have positive length.
C11_NonPositiveLengthIsAnError ==
    call.fn = "load_image_component" =>
        (call.rc = SUCCESS <=>
            (/\ HasNode(call.path)
             /\ PositiveLength(call.path, "data")
             /\ PositiveLength(call.path, "load")))

-----------------------------------------------------------------------------
(* Properties of the device-tree loader.                                   *)

FdtLoaderCalled == call.fn = "load_image_fdt"

\* The node has the property, and its value is one cell.
HasCell(path, name) == HasProp(path, name) /\ PropLen(PropOf(path, name)) = CellBytes

\* A tree-type node: `data` of positive size, a `load` cell and an
\* `extra-space` cell.
TreeTypeNode ==
    /\ PositiveLength(FdtPath, "data")
    /\ HasCell(FdtPath, "load")
    /\ HasCell(FdtPath, "extra-space")

\* The address the node's `load` cell names and the value of its
\* `extra-space` cell, read as the int the loader adds.
FdtLoadPtr    == Zeros(4) \o PropOf(FdtPath, "load").val
FdtExtraSpace == ToInt32(PropOf(FdtPath, "extra-space").val)

\* The device tree at `image` in b passes the header check.
ValidTreeIn(b, image) ==
    /\ BlobAt(b, image).magic = FDT_MAGIC
    /\ BlobAt(b, image).version >= FDT_FIRST_SUPPORTED_VERSION
    /\ BlobAt(b, image).last_comp_version <= FDT_LAST_SUPPORTED_VERSION

\* Before the call the node's data was a device tree of the data's size.
DonorPtr    == PtrOf(DataFrom(FdtPath))
DonorIsTree ==
    /\ ValidTreeIn(call.before, DonorPtr)
    /\ BEValue(BlobAt(call.before, DonorPtr).totalsize) = DataSize(FdtPath)

\* The call has returned the load address, having unpacked the donor there
\* with a capacity of the data's size plus the extra space.
UnpackedWithExtraSpace ==
    /\ call.ret = FdtLoadPtr
    /\ call.called
    /\ call.size = DataSize(FdtPath) + FdtExtraSpace
    /\ ValidTreeIn(blobs, FdtLoadPtr)
    /\ BlobAt(blobs, FdtLoadPtr).nodes = BlobAt(call.before, DonorPtr).nodes
    /\ BEValue(BlobAt(blobs, FdtLoadPtr).totalsize) = DataSize(FdtPath) + FdtExtraSpace

\* The claim as the specification states it, for every value of the
\* extra-space cell.
C12_Original_AnyExtraSpace ==
    (FdtLoaderCalled /\ TreeTypeNode /\ DonorIsTree) => UnpackedWithExtraSpace

\* C12: for a tree-type node with data of size S, load address A and an
\* extra-space cell whose value E is not negative as the int the loader
\* reads, load_image_fdt unpacks the donor tree into A with capacity S + E
\* and returns A; the tree at A then validates, has the donor's nodes and
\* properties, and reports total size S + E.
C12_UnpacksWithNonNegativeExtraSpace ==
    (FdtLoaderCalled /\ TreeTypeNode /\ DonorIsTree /\ FdtExtraSpace >= 0)
    => UnpackedWithExtraSpace

\* C12's case: a donor unpacked with extra space to a destination clear of
\* it, over the tree that lay there.
C12_Witness_UnpackedOverStaleTree ==
    /\ FdtLoaderCalled /\ TreeTypeNode /\ DonorIsTree
    /\ FdtExtraSpace > 0
    /\ FdtLoadPtr # DonorPtr
    /\ FdtLoadPtr \in DOMAIN call.before
    /\ call.ret = FdtLoadPtr
    /\ BlobAt(blobs, FdtLoadPtr).nodes = DonorNodes
    /\ BlobAt(blobs, FdtLoadPtr).free = FdtExtraSpace

\* The sub-steps of update_fdt_for_xen, in the order the claim gives them.
StepOrder == <<"node", "set compatible", "append compatible", "set reg", "append reg">>

\* C13: update_fdt_for_xen makes its sub-steps in the fixed order (locate or
\* create the node, set compatible, append "multiboot,module", set the reg
\* address, append the reg size); a failing sub-step is the last one made
\* and its code is the call's, and what the sub-steps before it did is
\* still in the tree.
C13_FirstErrorReturnedNoRollback ==
    XenCalled =>
        LET n    == Len(call.steps)
            name == SkipFirstChar(call.module_node_name)
        IN  /\ n \in 1..Len(StepOrder)
            /\ \A i \in 1..n : call.steps[i].step = StepOrder[i]
            /\ \A i \in 1..(n - 1) : call.steps[i].rc = SUCCESS
            /\ call.rc = call.steps[n].rc
            /\ call.rc = SUCCESS => n = Len(StepOrder)
            /\ (n = 1 /\ call.rc # SUCCESS) => tgt = tgt0
            /\ n >= 2 => NodesNamed(tgt, name) # {}
            /\ (n = 3 /\ call.rc # SUCCESS) =>
                  PropIs(NodeNamed(tgt, name), "compatible", "strings", <<call.compatible>>)
            /\ n >= 4 =>
                  PropIs(NodeNamed(tgt, name), "compatible", "strings",
                         <<call.compatible, "multiboot,module">>)
            /\ (n = 5 /\ call.rc # SUCCESS) =>
                  PropIs(NodeNamed(tgt, name), "reg", "bytes", call.module)

\* C13's case: the last sub-step fails for want of room, and the new node
\* is left with its compatible and the address cell of its reg.
C13_Witness_SizeNotAppended ==
    /\ XenCalled
    /\ Len(call.steps) = Len(StepOrder)
    /\ call.rc = -FDT_ERR_NOSPACE
    /\ NodesNamed(tgt0, SkipFirstChar(call.module_node_name)) = {}
    /\ PropIs(NodeNamed(tgt, SkipFirstChar(call.module_node_name)), "reg", "bytes",
              call.module)

\* C14: a failure of a tree operation inside the loader is returned to the
\* caller as a failure; in particular, when the extents were resolved and
\* unpacking the donor tree into the destination (fdt_open_into) fails,
\* load_image_fdt returns NULL and not the load address.
C14_UnpackFailureIsReturned ==
    (FdtLoaderCalled /\ call.assigned /\ call.called /\ call.open_rc # SUCCESS)
    => call.ret = NULL

\* The node has valid `data` and `load` properties and no `extra-space`
\* property, and its data is a device tree.
LacksExtraSpace ==
    /\ PositiveLength(FdtPath, "data")
    /\ HasCell(FdtPath, "load")
    /\ ~HasProp(FdtPath, "extra-space")
    /\ DonorIsTree

\* The claim as the specification states it: without an extra-space
\* property the tree is still loaded and its load address returned.
C20_Original_ExtraSpaceOptional ==
    (FdtLoaderCalled /\ LacksExtraSpace)
    => (call.ret = FdtLoadPtr /\ ValidTreeIn(blobs, FdtLoadPtr))

\* C20: the extra-space property is required for tree-type components:
\* load_image_fdt on a node that has valid `data` and `load` properties but
\* no extra-space property returns NULL and unpacks nothing.
C20_ExtraSpaceRequired ==
    (FdtLoaderCalled /\ LacksExtraSpace)
    => (call.ret = NULL /\ ~call.called /\ blobs = call.before)

\* C20's case: a well-formed donor and destination, no extra-space, and
\* nothing loaded.
C20_Witness_NothingLoaded ==
    /\ FdtLoaderCalled /\ LacksExtraSpace
    /\ FdtLoadPtr # DonorPtr
    /\ FdtLoadPtr \notin DOMAIN blobs
    /\ call.ret = NULL

-----------------------------------------------------------------------------
(* Properties of the locator's use of the gate.                            *)

\* The address find_fit_subimage resolves from /chosen/linux,initrd-start.
ResolvedSubimage == SubimageFromCell(Deref32(Initrd.bytes))

\* The operations of the call that read memory at the address.
ReadsAt(ops, addr) ==
    {i \in 1..Len(ops) : ops[i].addr = addr /\ ops[i].op \notin CacheOps}

\* C18: no byte of the FIT subimage is read before the gate has run on it:
\* in a call of find_fit_subimage that resolves a subimage address other
\* than the boot FDT's, every read of memory at that address comes after an
\* invalidation of it, and the address is returned only after the gate's
\* invalidation and the header check.
C18_NoReadBeforeGate ==
    (LocatorCalled /\ HasChosen /\ Initrd.len > 0 /\ ResolvedSubimage # boot.at) =>
        /\ \A i \in ReadsAt(call.ops, ResolvedSubimage) :
              \E j \in OpsOfKind(call.ops, CacheOps) :
                  j < i /\ call.ops[j].addr = ResolvedSubimage
        /\ call.ret = ResolvedSubimage =>
              \E j \in OpsOfKind(call.ops, CacheOps), k \in 1..Len(call.ops) :
                  /\ j < k
                  /\ call.ops[j].addr = ResolvedSubimage
                  /\ call.ops[k] = CheckHeaderOp(ResolvedSubimage)

-----------------------------------------------------------------------------
(* Properties of the extent resolver's encodings.                          *)

\* The node gives its data and, in place of a `load` cell, a `reg` property
\* of four 32-bit words.
PlacedByReg ==
    /\ PositiveLength(FdtPath, "data")
    /\ ~HasProp(FdtPath, "load")
    /\ HasProp(FdtPath, "reg")
    /\ PropLen(PropOf(FdtPath, "reg")) = 4 * CellBytes

\* The 64-bit address the `reg` property gives: its first two words.
RegAddress == SubSeq(PropOf(FdtPath, "reg").val, 1, 2 * CellBytes)

\* C19 as stated: the resolver supports the `reg` encoding too, so a node
\* placed by a `reg` of four big-endian words (address high, address low,
\* size high, size low) is resolved, to the full 64-bit address, which may
\* lie above 4 GiB.
C19_Original_RegPlacementResolved ==
    (FdtLoaderCalled /\ PlacedByReg) => (call.rc = SUCCESS /\ call.assigned)

\* C19, amended: the resolver reads the single-cell `load` form only; a node
\* placed by `reg` alone is not resolved: the resolver returns
\* -FDT_ERR_NOTFOUND without assigning its out arguments, and the loader
\* returns NULL having unpacked nothing.
C19_OnlyLoadFormResolved ==
    (FdtLoaderCalled /\ PlacedByReg) =>
        /\ call.rc = -FDT_ERR_NOTFOUND
        /\ ~call.assigned
        /\ call.ret = NULL
        /\ ~call.called
        /\ blobs = call.before

\* C19's case: a node whose `reg` names an address above 4 GiB, with an
\* `extra-space` cell and a valid donor, has been handed to the loader.
C19_Witness_RegAbove4G ==
    /\ FdtLoaderCalled /\ PlacedByReg
    /\ BEValue(SubSeq(RegAddress, 1, CellBytes)) > 0
    /\ HasCell(FdtPath, "extra-space")
    /\ ValidTreeIn(call.before, DonorPtr)
    /\ call.ret = NULL

-----------------------------------------------------------------------------
(* Properties of main.                                                     *)

MainRuns == call.fn = "main"
\* main is in panic's while(1).
Halted == call.pc = "panic"
\* The kernel has been jumped to.
Transferred == call.pc = "kernel" \/ \E i \in 1..Len(hist) : hist[i].step = "returned"

StepsNamed(name) == {i \in 1..Len(hist) : hist[i].step = name}

\* The failures main halts on: an invalid boot FDT, a NULL FIT image, a
\* component load, module patch or memory-topology sync that failed.
FailedBeforeLaunch ==
    \/ \E i \in StepsNamed("load_device_tree") : hist[i].rc # SUCCESS
    \/ \E i \in StepsNamed("find_fit_subimage") : hist[i].ret = NULL
    \/ \E i \in StepsNamed("load_image_component") : hist[i].ret = NULL
    \/ \E i \in StepsNamed("update_fdt_for_xen") : hist[i].rc # SUCCESS
    \/ \E i \in StepsNamed("update_fdt_memory") : hist[i].rc # SUCCESS
\* The target tree failed the header check in launch_kernel.
FailedAtLaunch == \E i \in StepsNamed("launch_kernel") : hist[i].rc # SUCCESS

Trace == [i \in 1..Len(hist) |-> <<hist[i].step, hist[i].path>>]

\* The steps before the memory-topology sync, in main's order.
StepsToPatch(module_node_name) ==
    << <<"load_device_tree", "">>, <<"find_fit_subimage", "">>,
       <<"load_image_component", "/images/xen_kernel@1">>,
       <<"load_image_component", "/images/fdt@1">>,
       <<"load_image_component", "/images/linux_kernel@1">>,
       <<"update_fdt_for_xen", module_node_name>> >>

\* Every step so far succeeded on something that is really there: no load
\* went on with uninitialised locals.
AllWhole == \A i \in 1..Len(hist) : hist[i].rc = SUCCESS /\ hist[i].ret # NULL

\* C16: a run of main that has reached the kernel launch has made these
\* steps, in this order and each once: the gate on the boot FDT, the
\* locator, the loads of the Xen kernel, the device tree and the dom0
\* kernel (last), the module patch, the memory-topology sync when it is not
\* skipped, and the launch, of the first-loaded component (the Xen kernel)
\* with the patched target tree as its argument.  No load follows the patch
\* and the patch precedes no load.
C16_LaunchAfterFixedSequence ==
    (MainRuns /\ call.pc = "kernel") =>
        \E name \in ModuleNames :
            /\ Trace = StepsToPatch(name)
                       \o (IF SyncNeeded(boot.at, call.fit_image)
                           THEN << <<"update_fdt_memory", "">> >> ELSE << >>)
                       \o << <<"launch_kernel", "">> >>
            /\ call.kernel = hist[3].ret
            /\ call.arg = hist[4].ret
            /\ NodesNamed(tgt, SkipFirstChar(name)) # {}
            /\ NodesNamed(tgt0, SkipFirstChar(name)) = {}

\* C16's case: the kernel has been launched after all eight steps, the sync
\* among them, on components that were all there.
C16_Witness_LaunchedAfterSync ==
    /\ MainRuns /\ call.pc = "kernel"
    /\ Len(hist) = 8
    /\ AllWhole
    /\ call.kernel # call.arg

\* The target tree's /memory node is the one it was loaded with.
MemoryAsLoaded ==
    /\ NodesNamed(tgt, "memory") # {}
    /\ NodeNamed(tgt, "memory") = NodeNamed(tgt0, "memory")

\* main has passed its memory-topology statement.
PastSync == call.pc \in {"launch_kernel", "kernel"} \/ StepsNamed("returned") # {}

\* C17: main calls update_fdt_memory exactly when the located FIT image
\* differs from the boot FDT's address; when find_fit_subimage fell back to
\* the boot FDT the sync is skipped and the target tree's /memory node is
\* left as it was loaded.
C17_SyncExactlyWhenSubimageFound ==
    MainRuns =>
        /\ StepsNamed("update_fdt_memory") # {} => call.fit_image # boot.at
        /\ (PastSync /\ call.fit_image # boot.at) =>
              Cardinality(StepsNamed("update_fdt_memory")) = 1
        /\ (PastSync /\ call.fit_image = boot.at) =>
              (StepsNamed("update_fdt_memory") = {} /\ MemoryAsLoaded)

\* C17's case: the locator fell back to the boot FDT, whose /memory differs
\* from the target's, and the kernel was launched with the target's own.
C17_Witness_FallbackLaunched ==
    /\ MainRuns /\ call.pc = "kernel"
    /\ call.fit_image = boot.at
    /\ AllWhole
    /\ NodesNamed(srcfdt, "memory") # {}
    /\ NodeNamed(srcfdt, "memory") # NodeNamed(tgt, "memory")

\* A launch with a target tree that fails the header check, in a run whose
\* steps all succeeded.
WarnedLaunchOfWholeRun ==
    /\ MainRuns /\ FailedAtLaunch /\ call.pc = "kernel"
    /\ \A i \in 1..(Len(hist) - 1) : hist[i].rc = SUCCESS /\ hist[i].ret # NULL

-----------------------------------------------------------------------------
(* Properties of the loader: overlap, the order of its operations, and the *)
(* resolver's out arguments.                                               *)

\* Earlier loads have overwritten part of the component's source bytes:
\* they are no longer what the container was handed over with.
SourceOverwritten(path) ==
    \E k \in 0..(DataSize(path) - 1) : pre[DataFrom(path) + k] # mem0[DataFrom(path) + k]

\* C21: the loader does not detect overlap: when an earlier load's
\* destination has overwritten part of a later component's source bytes,
\* the later load_image_component still returns its load address, and its
\* destination then holds the overwritten bytes as they lay at the data
\* pointer, not the component's original bytes.
C21_OverlapIsNotDetected ==
    (/\ call.fn = "load_image_component"
     /\ Len(hist) >= 2
     /\ WellFormedIn(pre, call.path)
     /\ SourceOverwritten(call.path))
    => LET A == LoadAddr(pre, call.path)
           S == DataSize(call.path)
           D == DataFrom(call.path)
       IN  /\ call.ret = PtrOf(A)
           /\ call.rc = SUCCESS
           /\ \A i \in 0..(S - 1) : mem[A + i] = pre[D + i]
           /\ \E i \in 0..(S - 1) : mem[A + i] # mem0[D + i]

\* C21's case: two well-formed components, the first loaded onto the
\* second's data and clear of its `load` cell; the second load succeeded.
C21_Witness_SecondSourceTrampled ==
    /\ call.fn = "load_image_component"
    /\ Len(hist) = 2
    /\ WellFormedIn(mem0, hist[1].path) /\ WellFormedIn(mem0, hist[2].path)
    /\ hist[1].assigned /\ hist[2].assigned
    /\ DestRange(hist[1].path) \cap SrcRange(hist[2].path) # {}
    /\ DestRange(hist[1].path) \cap MetaRange(hist[2].path) = {}
    /\ SourceOverwritten(call.path)
    /\ call.ret = PtrOf(LoadAddr(mem0, call.path))

-----------------------------------------------------------------------------
(* Properties of main's use of the locator, and of its termination.        *)

\* The boot FDT names a subimage, and what lies there fails the header
\* check.
NamesInvalidSubimage ==
    /\ HasChosen /\ Initrd.len > 0
    /\ ~ValidHeader(ResolvedSubimage)

\* C22: when /chosen/linux,initrd-start is present and the memory at the
\* resolved address fails header validation, find_fit_subimage does not
\* fall back to the boot tree: it returns NULL to main, and main, where the
\* call returned, halts: no component is loaded and control is not
\* transferred.
C22_InvalidSubimageIsNullThenHalt ==
    (MainRuns /\ NamesInvalidSubimage) =>
        \A i \in StepsNamed("find_fit_subimage") :
            /\ hist[i].ret = NULL
            /\ hist[i].ret # boot.at
            /\ i = Len(hist)
            /\ Halted /\ ~Transferred

\* C22's case: the boot FDT passed the gate, names an address whose header
\* has the magic number but too old a version, and the locator was called.
C22_Witness_OldVersionSubimage ==
    /\ MainRuns /\ NamesInvalidSubimage
    /\ StartsWithMagic(ResolvedSubimage)
    /\ Len(hist) = 2
    /\ hist[1].rc = SUCCESS
    /\ hist[2].step = "find_fit_subimage"
    /\ Halted

LoaderCalled == call.fn = "load_image_component"

\* The pointer the node's `load` cell, as it lies in memory m, decodes to.
LoadPtr(m, path) ==
    Zeros(4) \o [i \in 1..CellBytes |-> m[PropOf(path, "load").at + i - 1]]

\* C23: in load_image_component the invalidation of the destination range
\* [load_location, load_location + size) comes before the copy writes its
\* first byte, and it is made only after the extents were resolved: when
\* they were not (the resolver assigned no extents) nothing is invalidated
\* and nothing is written.
C23_InvalidateBeforeCopyOnlyWhenResolved ==
    LoaderCalled =>
        /\ call.assigned =>
              /\ Len(call.ops) = 2
              /\ call.ops[1] = invalidate_cache_region(LoadPtr(pre, call.path),
                                                       DataSize(call.path))
              /\ call.ops[2].op = "memmove"
              /\ call.ops[2].dst = call.ops[1].addr
              /\ call.ops[2].n = call.ops[1].size
        /\ ~call.assigned => (call.ops = << >> /\ mem = pre)

\* C24: get_subcomponent_information writes its out arguments if and only
\* if it returns SUCCESS, and then the size it wrote is positive; so the
\* loader never invalidates or copies with a location or size that the
\* call did not assign.
C24_OutArgumentsAssignedIffSuccess ==
    LoaderCalled =>
        /\ call.rc = SUCCESS <=> call.assigned
        /\ (call.rc = SUCCESS /\ call.out_size_set) => call.out_size > 0
        /\ call.ops # << >> => call.assigned

\* The statements of main a run can be at; none of them is a return.
MainPositions ==
    {"load_device_tree", "find_fit_subimage", "load_image_component",
     "update_fdt_for_xen", "update_fdt_memory", "launch_kernel", "kernel", "panic"}

\* C25: main never returns: every execution comes to one of two ends,
\* control transferred to the kernel or halted in panic, and stays there;
\* if the launched kernel returns, main is in panic; and once in panic the
\* system stays halted: no load, patch, launch or any other step follows.
C25_MainEndsLaunchedOrHalted ==
    /\ [](MainRuns => call.pc \in MainPositions)
    /\ <>[](call.pc \in {"kernel", "panic"})
    /\ [](StepsNamed("returned") # {} => Halted)
    /\ [][Halted => (Halted' /\ UNCHANGED <<hist, mem, tgt, blobs>>)]_vars

\* C25's case: the kernel was launched and returned, and main is in panic.
C25_Witness_KernelReturned ==
    /\ MainRuns /\ Halted
    /\ StepsNamed("launch_kernel") # {}
    /\ hist[Len(hist)].step = "returned"

-----------------------------------------------------------------------------
(* Properties of the C library.                                            *)

\* The length of the string in memory: its characters before the NUL.
StringLength == Len(mem) - 1

\* C26: strnlen(s, max) scans at most max characters: for every
\* NUL-terminated string and every max >= 0, max = 0 included, the result is
\* the smaller of the string's length and max, and no character at an index
\* of max or more is read.
C26_StrnlenScansAtMostMax ==
    call.fn = "strnlen" =>
        /\ call.ret = Min({StringLength, call.max})
        /\ \A i \in call.reads : i < call.max

\* For max > 0 the result is the smaller of the two and nothing from index
\* max on is read.
StrnlenRightForPositiveMax ==
    (call.fn = "strnlen" /\ call.max > 0) =>
        /\ call.ret = Min({StringLength, call.max})
        /\ \A i \in call.reads : i < call.max

====
